---- MODULE Spec2Model ----
(***************************************************************************)
(* Session orchestration hooks (servesys-labs/claude-agents, hooks/).      *)
(*                                                                         *)
(* Three subsystems are modelled, with these specifications over the same  *)
(* variables:                                                              *)
(*   SpecQueue  the durable ingestion queue of stop_digest.py              *)
(*              (enqueue_digest_job, process_ingest_queue,                 *)
(*              retry_dead_jobs, ingest_digest_to_vector)                  *)
(*   SpecIntake the queue fed with DIGESTs of every shape                  *)
(*   SpecStop   Stop invocations of stop_digest.py main()                  *)
(*   SpecJournal  append_notes / rotate_notes on a growing journal         *)
(*   SpecWsi    refresh_wsi on the WSI, pruned by the gate                 *)
(*   SpecStatus  update_claude_md on CLAUDE.md                             *)
(*   SpecCompact  PreCompact invocations between Stop invocations          *)
(*   SpecCheckpoint  create_checkpoint on a repository that is edited      *)
(*   SpecReads, SpecSchema, SpecRouting, SpecMarkdown                      *)
(*              the PreToolUse policy gate of pretooluse_validate.py       *)
(*                                                                         *)
(* Time is in whole seconds.  The file system is modelled as reliable for  *)
(* whole-file writes and unlinks; the failures that the code handles on a  *)
(* branch of its own (os.replace into the dead directory, an exception in  *)
(* append_notes / refresh_wsi) are modelled.                               *)
(***************************************************************************)
EXTENDS Integers, Sequences, FiniteSets, TLC

(***************************************************************************)
(* Bounds of the model (not program constants).                            *)
(***************************************************************************)
MaxTicks == 2       \* clock ticks of BACKOFF_BASE seconds after StartTime
MaxWarnings == 2    \* entries of WARNINGS.md the model follows
MaxJournal == 2     \* journal entries the model follows
MaxGateTurns == 4   \* PreToolUse invocations after the starting counter value
MaxNotes == 2       \* entries of <cwd>/NOTES.md
MaxApprovals == 2   \* entries of approved_files
MaxWaits == 3       \* steps of the clock of the gate
MaxAppends == 41    \* calls of append_notes in a behaviour of the journal
MaxRefreshes == 3   \* calls of refresh_wsi in a behaviour of the WSI
MaxUpdates == 3     \* runs of update_claude_md in a behaviour of the status document
MaxPayloadDigests == 2  \* DIGEST blocks in the text of a PreCompact payload
MaxCheckpoints == 1 \* stashes create_checkpoint stores in a behaviour of the repository
MaxRecords == 3     \* creations in a behaviour of the checkpoint directory
MaxCount == 9       \* attempt counts the repeated passes tell apart
MaxInvocations == 3 \* PreToolUse invocations in a behaviour of the counter file

\* the job ids ("<ms_epoch>-<8hex>") that exist over a behaviour of the queue
JobIds == {1, 2}

(***************************************************************************)
(* Program constants.                                                      *)
(***************************************************************************)
MAX_ATTEMPTS == 6
BACKOFF_BASE == 5
BACKOFF_CAP == 900
MIN_DIGEST_LENGTH == 50
StartTime == 200 * BACKOFF_BASE   \* wall-clock second at which a behaviour starts

Absent == "<absent>"   \* a key that the JSON object does not have

RECURSIVE Pow2(_)
Pow2(n) == IF n <= 0 THEN 1 ELSE 2 * Pow2(n - 1)

Min(a, b) == IF a <= b THEN a ELSE b
Max(a, b) == IF a >= b THEN a ELSE b

(***************************************************************************)
(* DIGEST objects.  Text fields are strings, "" when empty; agent and      *)
(* task_id are Absent when the key is missing.                             *)
(***************************************************************************)
StrLen(s) ==
    CASE s = "" -> 0
      [] s = "x" -> 1
      [] s = "RC" -> 2
      [] s = "d1" -> 2
      [] s = "d2" -> 2
      [] s = "DME" -> 3
      [] s = "IDS" -> 3
      [] s = "t-1" -> 3
      [] s = "t-2" -> 3
      [] s = "fix" -> 3
      [] s = "UNKNOWN" -> 7
      [] s = "untagged" -> 8
      [] OTHER -> 4

MkDigest(agent, task, summary, problem, solution, decisions) ==
    [agent |-> agent, task_id |-> task, summary |-> summary,
     problem |-> problem, solution |-> solution, decisions |-> decisions,
     files |-> <<>>]

\* an item of a DIGEST's files list: a JSON object with a path, a bare JSON
\* string, or an object whose path is a JSON array
FileRec(kind, path) == [kind |-> kind, path |-> path]

\* path.split("/")[-1]
Basename(path) ==
    CASE path = "src/a.py" -> "a.py"
      [] path = "src/b.py" -> "b.py"
      [] OTHER -> path

DGood      == MkDigest("RC", "t-1", "", "", "", <<"d1", "d2">>)
DNoAgent   == MkDigest(Absent, "t-1", "", "", "", <<"d1">>)
DUntagged  == MkDigest("RC", "untagged", "x", "", "", <<>>)
DNoTask    == MkDigest("RC", Absent, "x", "", "", <<>>)
DEmptyTask == MkDigest("RC", "", "", "x", "fix", <<>>)
DNoContent == MkDigest("RC", "t-1", "", "x", "", <<>>)
DMinimal   == MkDigest("", "x", "x", "", "", <<>>)

\* digest.get(key, default)
Get(d, key, default) == IF d[key] = Absent THEN default ELSE d[key]

\* number of decimal digits of a small positive index
Digits(i) == IF i < 10 THEN 1 ELSE 2

RECURSIVE SumSeq(_)
SumSeq(ns) == IF ns = <<>> THEN 0 ELSE Head(ns) + SumSeq(Tail(ns))

\* the lengths of the lines of text_parts, in order (stop_digest.py 882-941)
TextPartLens(d) ==
    LET agent == Get(d, "agent", "UNKNOWN")
        task  == Get(d, "task_id", "untagged")
        hdr   == <<17 + StrLen(agent) + 23 + StrLen(task) + 1, 0>>
        summ  == IF d.summary # "" THEN <<9 + StrLen(d.summary), 0>> ELSE <<>>
        prob  == IF d.problem # "" THEN <<9 + StrLen(d.problem)>>
                 ELSE IF d.decisions # <<>> THEN <<9 + StrLen(d.decisions[1])>>
                 ELSE <<>>
        sol   == IF d.solution # "" THEN <<10 + StrLen(d.solution)>>
                 ELSE IF d.decisions # <<>>
                      THEN <<9>> \o [i \in 1..Len(d.decisions) |->
                                       2 + Digits(i) + 2 + StrLen(d.decisions[i])]
                 ELSE <<>>
        shown == SubSeq(d.files, 1, Min(3, Len(d.files)))
        names == [i \in 1..Len(shown) |-> StrLen(Basename(shown[i].path))]
        ctx   == IF d.files = <<>> THEN <<>>
                 ELSE <<27 + SumSeq(names) + 2 * (Len(names) - 1)>>
                      \o (IF Len(d.files) > 3 THEN <<19 + Digits(Len(d.files) - 3)>>
                          ELSE <<>>)
    IN  hdr \o summ \o prob \o sol \o ctx

\* len("\n".join(text_parts))
DigestTextLen(d) ==
    LET parts == TextPartLens(d)
    IN  SumSeq(parts) + (Len(parts) - 1)

(***************************************************************************)
(* State.                                                                  *)
(***************************************************************************)
VARIABLES
    now,          \* wall clock, seconds
    queueDir,     \* QUEUE_DIR: job id -> job file
    deadDir,      \* DEAD_DIR: job id -> job file
    nextId,       \* next job id that enqueue_digest_job mints
    warnings,     \* number of "## [ts]" entries of WARNINGS.md
    setupFlag,    \* .needs_vector_rag_setup exists
    creds,        \* DATABASE_URL_MEMORY, REDIS_URL and OPENAI_API_KEY are all set
    enableRag,    \* ENABLE_VECTOR_RAG = true
    ingested,     \* documents the vector service accepted: [job, digest]
    summary,      \* what the process_ingest_queue / retry_dead_jobs that ran last returned
    passLog       \* per job, the branch the Drain pass that ran last took for it

queueVars == <<now, queueDir, deadDir, nextId, warnings, setupFlag, creds,
               enableRag, ingested, summary, passLog>>

VARIABLES
    journal,      \* .claude/logs/NOTES.md: the sections rotate_notes finds, each the
                  \* DIGESTs of the entries it spans, oldest first
    archive,      \* logs/notes-archive/: file name (the second it was written) ->
                  \* the entries it holds
    wsi,          \* wsi.json: the list "items"
    placeholders, \* NOTES.md and wsi.json exist
    noteCount,    \* number of entries append_notes has written to NOTES.md so far
    wsiLog,       \* what the refresh_wsi call that ran last was given and did
    claudeMd,     \* CLAUDE.md: its text as a sequence of tokens, <<>> when missing
    statusLog,    \* what the update_claude_md run that ran last did
    compactSummary, \* compaction-summary.json
    compactLog,   \* what the PreCompact invocation that ran last read and found
    stopLog       \* what the Stop invocation that ran last did

stopVars == <<journal, archive, wsi, placeholders, stopLog, noteCount, wsiLog,
              claudeMd, statusLog, compactSummary, compactLog>>

VARIABLES
    turn_count,   \* turn_count.txt
    file_hashes,  \* file_hashes.json: path -> hash, turn, duplicate_attempts
    workFiles,    \* the project's files: path -> content hash, 0 when missing
    projectNotes, \* <cwd>/NOTES.md: the entries written to it, oldest first
    md_state,     \* md_request_state.json
    approvalTimes, \* for each entry of approved_files, the time of the prompt that added it
    gateLog,      \* what the PreToolUse invocation that ran last did
    readRun       \* exit codes of the Reads of one unchanged file in a row,
                  \* counted from an empty hash cache

gateVars == <<turn_count, file_hashes, workFiles, projectNotes, md_state, gateLog,
              readRun, approvalTimes>>

VARIABLES
    workTree,     \* the working tree of the repository: path -> content, 0 when missing
    gitIndex,     \* the index: path -> content, 0 when the path is not in it
    gitHead,      \* the commit HEAD points to: whether there is one, and its tree
    stashList,    \* the stash objects git stash store recorded, oldest first
    checkpointDir, \* CHECKPOINT_DIR: the checkpoint files, sorted by name
    ckLog,        \* what the create_checkpoint call that ran last did
    creations     \* the records the successful create_checkpoint calls wrote, in order

repoVars == <<workTree, gitIndex, gitHead, stashList, checkpointDir, ckLog, creations>>

VARIABLES
    passes        \* the Drain passes that run at the same time: where each is in its loop

passVars == <<passes>>

VARIABLES
    counterRuns   \* PreToolUse invocations that overlap on turn_count.txt: the
                  \* characters of the file, each invocation's position and the
                  \* count it read, the invocations started, the value the
                  \* behaviour started with and the value the write that
                  \* completed last left in the file

counterVars == <<counterRuns>>

restVars == <<repoVars, passVars, counterVars>>

vars == <<queueVars, stopVars, gateVars, restVars>>

(***************************************************************************)
(* Vector client: ingest_digest_to_vector and call_vector_bridge_mcp.      *)
(***************************************************************************)
SkippedNotConfigured == "Vector RAG not configured yet (setup in progress)"
SkippedQuality == "Quality gate failed"
ErrTimeout == "MCP call timed out after 60s"
ErrOther == "server exited"
ErrAttribute == "object has no attribute"

Result(truthy, error, skipped) == [truthy |-> truthy, error |-> error, skipped |-> skipped]

\* what call_vector_bridge_mcp("memory_ingest", ...) can return
McpResults ==
    { Result(TRUE, "", ""),            \* the tools/call result, also success-despite-timeout
      Result(TRUE, ErrTimeout, ""),    \* subprocess.TimeoutExpired
      Result(TRUE, ErrOther, ""),      \* any other exception
      Result(FALSE, "", "") }          \* None: no response with id 2

\* re.search(nonfatal_pat, err_text, IGNORECASE) with the default pattern
MatchesNonfatal(err) == err = ErrTimeout

\* "not configured" in str(result.get("skipped", ""))
MentionsNotConfigured(s) == s = SkippedNotConfigured

\* the quality gates without the test of the agent
QualityGateNoAgent(d) ==
    LET task  == Get(d, "task_id", "untagged")
        has_summary == d.summary # ""
        has_problem_solution == d.problem # "" /\ d.solution # ""
        has_decisions == d.decisions # <<>>
    IN  IF ~(has_summary \/ has_problem_solution \/ has_decisions)
            THEN "insufficient_content"
        ELSE IF task = "untagged" \/ task = "" THEN "missing_task_id"
        ELSE IF DigestTextLen(d) < MIN_DIGEST_LENGTH THEN "insufficient_length"
        ELSE ""

\* the quality gates of ingest_digest_to_vector; "" when the digest passes
QualityGate(d) ==
    LET agent == Get(d, "agent", "UNKNOWN")
        task  == Get(d, "task_id", "untagged")
        has_summary == d.summary # ""
        has_problem_solution == d.problem # "" /\ d.solution # ""
        has_decisions == d.decisions # <<>>
    IN  IF ~(has_summary \/ has_problem_solution \/ has_decisions)
            THEN "insufficient_content"
        ELSE IF agent = "UNKNOWN" THEN "missing_agent"
        ELSE IF task = "untagged" \/ task = "" THEN "missing_task_id"
        ELSE IF DigestTextLen(d) < MIN_DIGEST_LENGTH THEN "insufficient_length"
        ELSE ""

\* the results ingest_digest_to_vector(digest) can return
ingest_digest_to_vector(d, credsOk) ==
    IF ~credsOk THEN { Result(TRUE, "", SkippedNotConfigured) }
    ELSE IF QualityGate(d) \in {"insufficient_content", "missing_agent", "missing_task_id"}
         THEN { Result(TRUE, "", SkippedQuality) }
    ELSE IF \E i \in 1..Min(3, Len(d.files)) : d.files[i].kind # "object"
         THEN { Result(TRUE, ErrAttribute, "") }   \* f.get / .split raises
    ELSE IF QualityGate(d) # "" THEN { Result(TRUE, "", SkippedQuality) }
    ELSE McpResults

(***************************************************************************)
(* Backoff.                                                                *)
(***************************************************************************)
\* integer samples of base * 0.25 * (random() - 0.5), random() in [0, 1)
JitterSamples(base) == { -(base \div 8), 0, (base - 1) \div 8 }

compute_backoff_seconds(attempt_count) ==
    IF attempt_count <= 0 THEN {0}
    ELSE LET base == BACKOFF_BASE * Pow2(attempt_count - 1)
         IN  { Min(Max(base + j, BACKOFF_BASE), BACKOFF_CAP) : j \in JitterSamples(base) }

(***************************************************************************)
(* Job files.  last_attempt = 0 stands for null; mtime is the file's       *)
(* modification time, not a key of the JSON.                               *)
(***************************************************************************)
JobFile(count, last_attempt, last_error, status, digest, mtime) ==
    [attempt_count |-> count, last_attempt |-> last_attempt, last_error |-> last_error,
     status |-> status, digest |-> digest, mtime |-> mtime]

\* the job file enqueue_digest_job writes
NewJob(digest, t) == JobFile(0, 0, "", "queued", digest, t)

\* f without key n
Remove(f, n) == [m \in DOMAIN f \ {n} |-> f[m]]
\* f with key n bound to v
Put(f, n, v) == [m \in DOMAIN f \cup {n} |-> IF m = n THEN v ELSE f[m]]

EmptyDir == [m \in {} |-> 0]

\* the listings sorted(files, key=mtime) can produce (ties in listdir order)
SortedByMtime(dir) ==
    LET k == Cardinality(DOMAIN dir)
    IN  { s \in [1..k -> DOMAIN dir] :
            /\ \A i, j \in 1..k : i # j => s[i] # s[j]
            /\ \A i, j \in 1..k : i < j => dir[s[i]].mtime <= dir[s[j]].mtime }

(***************************************************************************)
(* process_ingest_queue: one pass over the listing.  A pass state carries  *)
(* the files, the counters of the summary and the effects on WARNINGS.md,  *)
(* the setup flag and the vector service.                                  *)
(***************************************************************************)
PassState(q, d, warn, flag, ing) ==
    [q |-> q, d |-> d, warn |-> warn, flag |-> flag, ing |-> ing,
     processed |-> 0, succeeded |-> 0, failed |-> 0,
     skipped_backoff |-> 0, skipped_no_creds |-> 0,
     log |-> EmptyDir, stopped |-> FALSE]

\* check_and_setup_vector_rag: its effect on the flag file and WARNINGS.md
check_and_setup_vector_rag(st, credsOk) ==
    IF credsOk \/ st.flag THEN st
    ELSE [st EXCEPT !.flag = TRUE, !.warn = @ + 1]

\* what the pass records for a job it visited: whether it attempted the job
\* and the result the vector client gave
Visited(attempted, result) == [attempted |-> attempted, result |-> result]
NoResult == Result(FALSE, "", "")

\* a missing-credentials rewrite that keeps the increment
NoCredsJobCounted(job, skipped, t) ==
    [job EXCEPT !.last_error = skipped, !.status = "queued", !.mtime = t]

\* the job file rewritten on the missing-credentials branch
NoCredsJob(job, skipped, t) ==
    [job EXCEPT !.last_error = skipped, !.status = "queued",
                !.attempt_count = @ - 1, !.mtime = t]

\* a retryable rewrite that keeps the increment
RetryableJobCounted(job, err_text, t) ==
    [job EXCEPT !.last_error = err_text, !.status = "queued", !.mtime = t]

\* the job file rewritten on the retryable branch
RetryableJob(job, err_text, t) ==
    [job EXCEPT !.last_error = err_text, !.status = "queued",
                !.attempt_count = @ - 1, !.mtime = t]

\* a dead-letter test that lets one more attempt through
IsDeadLetterLate(attempt_count) == attempt_count > MAX_ATTEMPTS

\* the test that sends a failed job to the dead-letter directory
IsDeadLetter(attempt_count) == attempt_count >= MAX_ATTEMPTS

\* a copy into the dead directory that leaves the queue file behind
CopyToDead(st, n) == [st EXCEPT !.d = Put(st.d, n, st.q[n])]

\* os.replace(job_path, dead_path): the file moves as it is on disk
MoveToDead(st, n) ==
    [st EXCEPT !.q = Remove(st.q, n), !.d = Put(st.d, n, st.q[n])]

\* the mutation: the job file is left in the queue directory
RemoveJobKeepsFile(st, n) == st

\* os.remove(job_path) after a successful ingestion
RemoveJob(st, n) == [st EXCEPT !.q = Remove(st.q, n)]

\* the body of the loop for a job that is attempted, for one result of the
\* client: old is the job as the pass read it at time started, st0 the files
\* as they are when the result arrives at time t
AttemptJobAt(st0, n, old, started, t, credsOk, result, moveFails) ==
    LET st  == check_and_setup_vector_rag(st0, credsOk)
        job == [old EXCEPT !.last_attempt = started, !.attempt_count = @ + 1]
        ok  == result.truthy /\ result.error = "" /\ result.skipped = ""
        is_missing_creds == result.truthy /\ result.skipped # ""
                            /\ MentionsNotConfigured(result.skipped)
        err_text == result.error
        is_retryable == err_text # "" /\ MatchesNonfatal(err_text)
        stp == [st EXCEPT !.processed = @ + 1,
                          !.log = Put(st.log, n, Visited(TRUE, result))]
    IN  IF ok THEN
            [RemoveJob(stp, n) EXCEPT
                 !.succeeded = @ + 1,
                 !.ing = @ \cup {[job |-> n, digest |-> old.digest]}]
        ELSE IF is_missing_creds THEN
            [stp EXCEPT !.skipped_no_creds = @ + 1,
                        !.q = Put(st.q, n, NoCredsJob(job, result.skipped, t)),
                        !.warn = @ + 1]
        ELSE IF is_retryable THEN
            [stp EXCEPT !.q = Put(st.q, n, RetryableJob(job, err_text, t))]
        ELSE
            LET failedJob == [job EXCEPT !.last_error =
                                  IF result.truthy /\ result.error # ""
                                  THEN result.error ELSE "unknown error"]
            IN  IF IsDeadLetter(failedJob.attempt_count) THEN
                    IF ~moveFails THEN
                        [MoveToDead(stp, n) EXCEPT !.failed = @ + 1]
                    ELSE
                        \* fallback: rewrite in place tagged as dead
                        [stp EXCEPT !.failed = @ + 1,
                                    !.q = Put(st.q, n, [failedJob EXCEPT !.status = "dead",
                                                                         !.mtime = t])]
                ELSE
                    [stp EXCEPT !.failed = @ + 1,
                                !.q = Put(st.q, n, [failedJob EXCEPT !.status = "queued",
                                                                     !.mtime = t])]

\* the same body within one pass that runs alone: the file is as it was read
AttemptJob(st0, n, t, credsOk, result, moveFails) ==
    AttemptJobAt(st0, n, st0.q[n], t, t, credsOk, result, moveFails)

\* the pass states after the loop body for file n
VisitJob(st, n, t, credsOk, max_jobs) ==
    IF st.stopped THEN {st}
    ELSE IF st.processed >= max_jobs THEN {[st EXCEPT !.stopped = TRUE]}
    ELSE
        \* the time budget can only be used up by an earlier ingest call
        (IF st.processed > 0 THEN {[st EXCEPT !.stopped = TRUE]} ELSE {})
        \cup
        (IF n \notin DOMAIN st.q THEN {st}
         ELSE LET job == st.q[n]
                  last_ts == job.last_attempt
              IN  UNION {
                    IF last_ts # 0 /\ (t - last_ts) < backoff_needed
                    THEN {[st EXCEPT !.skipped_backoff = @ + 1,
                                     !.log = Put(st.log, n, Visited(FALSE, NoResult))]}
                    ELSE { AttemptJob(st, n, t, credsOk, r, mf) :
                             r \in ingest_digest_to_vector(job.digest, credsOk),
                             mf \in BOOLEAN }
                    : backoff_needed \in compute_backoff_seconds(job.attempt_count) })

RECURSIVE DrainLoop(_, _, _, _, _)
DrainLoop(sts, files, t, credsOk, max_jobs) ==
    IF files = <<>> THEN sts
    ELSE DrainLoop(UNION { VisitJob(st, Head(files), t, credsOk, max_jobs) : st \in sts },
                   Tail(files), t, credsOk, max_jobs)

Summary(st) ==
    [processed |-> st.processed, succeeded |-> st.succeeded, failed |-> st.failed,
     skipped_backoff |-> st.skipped_backoff, skipped_no_creds |-> st.skipped_no_creds,
     moved |-> 0]

NoSummary == [processed |-> 0, succeeded |-> 0, failed |-> 0,
              skipped_backoff |-> 0, skipped_no_creds |-> 0, moved |-> 0]

\* max_jobs: the default 3 is as good as the 999 of --process-queue here
MaxJobsArgs == {1, 999}

process_ingest_queue(max_jobs) ==
    /\ UNCHANGED <<now, nextId, creds, enableRag>>
    /\ IF ~enableRag THEN
            /\ warnings < MaxWarnings
            /\ warnings' = warnings + 1
            /\ summary' = NoSummary
            /\ passLog' = EmptyDir
            /\ UNCHANGED <<queueDir, deadDir, setupFlag, ingested>>
       ELSE \E files \in SortedByMtime(queueDir) :
            \E st \in DrainLoop({PassState(queueDir, deadDir, warnings, setupFlag, ingested)},
                                files, now, creds, max_jobs) :
                /\ st.warn <= MaxWarnings
                /\ queueDir' = st.q
                /\ deadDir' = st.d
                /\ warnings' = st.warn
                /\ setupFlag' = st.flag
                /\ ingested' = st.ing
                /\ summary' = Summary(st)
                /\ passLog' = st.log

Drain ==
    /\ \E max_jobs \in MaxJobsArgs : process_ingest_queue(max_jobs)
    /\ UNCHANGED <<stopVars, gateVars, restVars>>

(***************************************************************************)
(* enqueue_digest_job                                                      *)
(***************************************************************************)
\* the DIGESTs handed to Enqueue in the queue specification
QueueDigests == {DGood, DNoAgent}

enqueue_digest_job(digest) ==
    /\ nextId \in JobIds
    /\ queueDir' = Put(queueDir, nextId, NewJob(digest, now))
    /\ nextId' = nextId + 1
    /\ summary' = NoSummary
    /\ passLog' = EmptyDir
    /\ UNCHANGED <<now, deadDir, warnings, setupFlag, creds, enableRag, ingested>>

Enqueue ==
    /\ \E digest \in QueueDigests : enqueue_digest_job(digest)
    /\ UNCHANGED <<stopVars, gateVars, restVars>>

(***************************************************************************)
(* retry_dead_jobs                                                         *)
(***************************************************************************)
\* the name "<base>-retry-<6hex>" chosen when the queue already holds name n
RetryName(n) == n + 100

\* the mutation: the metadata is reset but for the attempt counter
ResetJobKeepsCount(job, t) ==
    [job EXCEPT !.status = "queued", !.last_error = "", !.last_attempt = 0, !.mtime = t]

\* the job a dead file is rewritten as; null is "" for last_error, 0 for last_attempt
ResetJob(job, t) ==
    [job EXCEPT !.status = "queued", !.attempt_count = 0,
                !.last_error = "", !.last_attempt = 0, !.mtime = t]

RECURSIVE RetryLoop(_, _, _, _, _, _)
\* q, d: the directories; moved: the counter; limit: {} for None, {k} for k
RetryLoop(q, d, moved, files, limit, t) ==
    IF files = <<>> \/ (limit # {} /\ \E k \in limit : moved >= k)
    THEN [q |-> q, d |-> d, moved |-> moved]
    ELSE LET n    == Head(files)
             job  == ResetJob(d[n], t)
             dest == IF n \in DOMAIN q THEN RetryName(n) ELSE n
         IN  RetryLoop(Put(q, dest, job), Remove(d, n), moved + 1, Tail(files), limit, t)

LimitArgs == {{}, {1}}

retry_dead_jobs(limit) ==
    \E files \in SortedByMtime(deadDir) :
        LET r == RetryLoop(queueDir, deadDir, 0, files, limit, now)
        IN  /\ queueDir' = r.q
            /\ deadDir' = r.d
            /\ summary' = [NoSummary EXCEPT !.moved = r.moved]
            /\ passLog' = EmptyDir
            /\ UNCHANGED <<now, nextId, warnings, setupFlag, creds, enableRag, ingested>>

RetryDead ==
    /\ \E limit \in LimitArgs : retry_dead_jobs(limit)
    /\ UNCHANGED <<stopVars, gateVars, restVars>>

(***************************************************************************)
(* Environment of the queue: the clock, the environment variables and the  *)
(* hook that consumes the setup flag.                                      *)
(***************************************************************************)
Tick ==
    /\ now < StartTime + MaxTicks * BACKOFF_BASE
    /\ now' = now + BACKOFF_BASE
    /\ summary' = NoSummary
    /\ passLog' = EmptyDir
    /\ UNCHANGED <<queueDir, deadDir, nextId, warnings, setupFlag, creds, enableRag,
                   ingested>>
    /\ UNCHANGED <<stopVars, gateVars, restVars>>

\* the user sets or unsets the three credential variables between runs
ConfigureEnv ==
    /\ creds' = ~creds
    /\ summary' = NoSummary
    /\ passLog' = EmptyDir
    /\ UNCHANGED <<now, queueDir, deadDir, nextId, warnings, setupFlag, enableRag,
                   ingested>>
    /\ UNCHANGED <<stopVars, gateVars, restVars>>

\* auto_project_setup.py main(): unlinks the flag the Stop hook left
ConsumeSetupFlag ==
    /\ setupFlag
    /\ setupFlag' = FALSE
    /\ summary' = NoSummary
    /\ passLog' = EmptyDir
    /\ UNCHANGED <<now, queueDir, deadDir, nextId, warnings, creds, enableRag, ingested>>
    /\ UNCHANGED <<stopVars, gateVars, restVars>>

(***************************************************************************)
(* The Stop coordinator: append_notes, rotate_notes, refresh_wsi, main.    *)
(***************************************************************************)
NOTES_KEEP == 20    \* sections rotate_notes keeps
WSI_CAP == 10

DWithFiles   == [DGood EXCEPT !.files = <<FileRec("object", "src/a.py")>>]
DStringFiles == [DGood EXCEPT !.files = <<FileRec("string", "src/a.py")>>]
DListPath    == [DGood EXCEPT !.files = <<FileRec("listpath", "src/b.py")>>]

RECURSIVE Flatten(_)
Flatten(ss) == IF ss = <<>> THEN <<>> ELSE Head(ss) \o Flatten(Tail(ss))

\* notes: [sections, archive].  The sections kept are written back joined
\* with no newline between them, so the next findall sees them as one section.
\* The archive file is named after the second t and opened with mode "w".
rotate_notes(notes, t) ==
    IF Len(notes.sections) <= NOTES_KEEP THEN notes
    ELSE LET cut == Len(notes.sections) - NOTES_KEEP
         IN  [sections |-> << Flatten(SubSeq(notes.sections, cut + 1,
                                             Len(notes.sections))) >>,
              archive  |-> Put(notes.archive, t,
                               Flatten(SubSeq(notes.sections, 1, cut)))]

\* f.get('path') on an item that is a JSON string raises AttributeError
AppendNotesRaises(d) == \E i \in 1..Len(d.files) : d.files[i].kind = "string"

\* a block of NOTES.md: the heading carries the time stamp
NotesBlock(d, t) == [digest |-> d, ts |-> t]

\* the block is appended, then the file is rotated
append_notes(notes, d, t) ==
    rotate_notes([notes EXCEPT !.sections = Append(@, <<NotesBlock(d, t)>>)], t)

RECURSIVE ArchivedCount(_)
\* number of entries in the files of the archive directory
ArchivedCount(dir) ==
    IF DOMAIN dir = {} THEN 0
    ELSE LET name == CHOOSE n \in DOMAIN dir : TRUE
         IN  Len(dir[name]) + ArchivedCount(Remove(dir, name))

WsiItem(path, t) == [path |-> path, reason |-> "touched", last_access |-> t]

\* seen[path], 0 when the path is not a key of seen
SeenIndex(items, path) ==
    LET found == {i \in 1..Len(items) : items[i].path = path}
    IN  IF found = {} THEN 0 ELSE CHOOSE i \in found : \A j \in found : j <= i

RECURSIVE RefreshLoop(_, _, _, _)
\* loaded: the items seen was built from; seen is not updated in the loop
RefreshLoop(current, loaded, files, t) ==
    IF files = <<>> THEN current
    ELSE LET path == Head(files).path
             idx  == SeenIndex(loaded, path)
         IN  IF path = "" THEN RefreshLoop(current, loaded, Tail(files), t)
             ELSE IF idx # 0
                  THEN RefreshLoop([current EXCEPT ![idx] = WsiItem(path, t)],
                                   loaded, Tail(files), t)
             ELSE RefreshLoop(Append(current, WsiItem(path, t)), loaded, Tail(files), t)

\* f.get on a JSON string raises AttributeError; `path in seen` with a path
\* that is a JSON array raises TypeError; nothing was saved by then
RefreshWsiRaises(d) == \E i \in 1..Len(d.files) : d.files[i].kind # "object"

\* the mutation: the list is saved as the loop left it
refresh_wsi_uncapped(items, d, t) == RefreshLoop(items, items, d.files, t)

refresh_wsi(items, d, t) ==
    LET current == RefreshLoop(items, items, d.files, t)
    IN  IF Len(current) > WSI_CAP
        THEN SubSeq(current, Len(current) - WSI_CAP + 1, Len(current))
        ELSE current

\* a text: whether DIGEST_RE finds a block in it that parses, and its JSON
Msg(has, d) == [has |-> has, digest |-> d]
NoDigestText == Msg(FALSE, DGood)

StopDigests == {DWithFiles, DStringFiles, DListPath}
StopTexts == {NoDigestText} \cup { Msg(TRUE, d) : d \in StopDigests }

\* the transcript file: present on disk or not; raw when it holds the
\* assistant texts unencoded, else JSON / JSONL; msgs, the assistant messages
\* in order; tail, how many of the last messages lie in the tail window when
\* the file is larger than STOP_TAIL_WINDOW_BYTES (0 when it is not larger)
Transcript(present, raw, msgs, tail) ==
    [present |-> present, raw |-> raw, msgs |-> msgs, tail |-> tail]
NoTranscript == Transcript(FALSE, FALSE, <<>>, 0)
TranscriptLens == {0, 1, 2}
Transcripts ==
    {NoTranscript} \cup
    UNION { { Transcript(TRUE, raw, msgs, tail) :
                raw \in BOOLEAN, tail \in 0..Len(msgs) } :
            msgs \in UNION { [1..k -> StopTexts] : k \in TranscriptLens } }

\* the Stop payload: valid JSON or not, its assistant text, its transcript
StopPayloads == [valid : BOOLEAN, text : StopTexts, transcript : Transcripts]

StopState(sections, arch, items) ==
    [notes |-> [sections |-> sections, archive |-> arch], items |-> items,
     jobs |-> <<>>, appended |-> 0, raised |-> FALSE]

\* append_notes; refresh_wsi; enqueue_digest_job, up to the first exception
ProcessDigest(st, d, t) ==
    IF AppendNotesRaises(d) THEN [st EXCEPT !.raised = TRUE]
    ELSE LET st1 == [st EXCEPT !.notes = append_notes(@, d, t), !.appended = @ + 1]
         IN  IF RefreshWsiRaises(d) THEN [st1 EXCEPT !.raised = TRUE]
             ELSE [st1 EXCEPT !.items = refresh_wsi(@, d, t),
                              !.jobs = Append(@, d),
                              !.raised = FALSE]

Outcome(st, found, exit) == [st |-> st, found |-> found, exit |-> exit]

\* index of the last message with a DIGEST, 0 when there is none
LatestDigestIndex(msgs) ==
    LET with == {i \in 1..Len(msgs) : msgs[i].has}
    IN  IF with = {} THEN 0 ELSE CHOOSE i \in with : \A j \in with : j <= i

\* index of the first message of the tail window with a DIGEST, 0 when none
TailDigestIndex(tr) ==
    LET with == {i \in (Len(tr.msgs) - tr.tail + 1)..Len(tr.msgs) : tr.msgs[i].has}
    IN  IF with = {} THEN 0 ELSE CHOOSE i \in with : \A j \in with : i <= j

\* full parse and the final write (lines 1349-1586)
FullParsePath(st, p, found, t) ==
    LET tr   == p.transcript
        list == IF tr.present /\ ~tr.raw THEN tr.msgs ELSE <<>>
        k    == LatestDigestIndex(list)
        text == IF k # 0 THEN list[k]
                ELSE IF list # <<>> THEN list[Len(list)]
                ELSE p.text
    IN  IF ~text.has THEN Outcome(st, found, 0)
        ELSE LET st1 == ProcessDigest(st, text.digest, t)
             IN  Outcome(st1, TRUE, IF st1.raised THEN 1 ELSE 0)

\* tail scan of a transcript larger than the window (lines 1297-1341); the
\* block found in a JSON-encoded transcript has its quotes escaped and does
\* not parse
TailPath(st, p, found, t) ==
    LET tr == p.transcript
        k  == TailDigestIndex(tr)
    IN  IF tr.present /\ tr.tail > 0 /\ tr.raw /\ k # 0
        THEN LET st1 == ProcessDigest(st, tr.msgs[k].digest, t)
             IN  IF ~st1.raised THEN Outcome(st1, TRUE, 0)
                 ELSE FullParsePath(st1, p, TRUE, t)
        ELSE FullParsePath(st, p, found, t)

\* main() from the read of stdin on
stop_main(p, st, t) ==
    IF ~p.valid THEN Outcome(st, FALSE, 1)
    ELSE IF p.text.has
         THEN LET st1 == ProcessDigest(st, p.text.digest, t)
              IN  IF ~st1.raised THEN Outcome(st1, TRUE, 0)
                  ELSE TailPath(st1, p, TRUE, t)
    ELSE TailPath(st, p, FALSE, t)

RECURSIVE EnqueueAll(_, _, _, _)
\* enqueue_digest_job for each DIGEST of the list
EnqueueAll(q, id, digests, t) ==
    IF digests = <<>> THEN [q |-> q, id |-> id]
    ELSE EnqueueAll(Put(q, id, NewJob(Head(digests), t)), id + 1, Tail(digests), t)

\* calls: refresh_wsi calls so far; uncapped: the length of the list before the cap
NoRefresh == [ran |-> FALSE, files |-> <<>>, before |-> <<>>, uncapped |-> 0,
              calls |-> 0]

\* the text of the most recent assistant message of the transcript that
\* holds a DIGEST, NoDigestText when no message holds one
LatestDigestText(tr) ==
    LET k == LatestDigestIndex(tr.msgs)
    IN  IF k = 0 THEN NoDigestText ELSE tr.msgs[k]

\* valid: standard input held a JSON value; empty input does not.  inline:
\* the payload's own text held a DIGEST; latest: the most recent DIGEST
\* message of the transcript
NoStop == [ran |-> FALSE, found |-> FALSE, exit |-> 0, appended |-> 0, enqueued |-> 0,
           valid |-> TRUE, inline |-> FALSE, latest |-> NoDigestText]

StopOn(payloads) ==
    \E p \in payloads :
      \E r \in { stop_main(p, StopState(journal, archive, wsi), now) } :
        LET st == r.st
            e  == EnqueueAll(queueDir, nextId, st.jobs, now)
        IN  /\ Len(Flatten(st.notes.sections)) + ArchivedCount(st.notes.archive)
                   <= MaxJournal
            /\ \A id \in nextId..(e.id - 1) : id \in JobIds
            /\ journal' = st.notes.sections
            /\ archive' = st.notes.archive
            /\ noteCount' = noteCount + st.appended
            /\ wsi' = st.items
            /\ wsiLog' = NoRefresh
            /\ UNCHANGED <<claudeMd, statusLog, compactSummary, compactLog>>
            /\ placeholders' = TRUE
            /\ queueDir' = e.q
            /\ nextId' = e.id
            /\ summary' = NoSummary
            /\ passLog' = EmptyDir
            /\ stopLog' = [ran |-> TRUE, found |-> r.found, exit |-> r.exit,
                           appended |-> st.appended, valid |-> p.valid,
                           inline |-> p.text.has,
                           latest |-> LatestDigestText(p.transcript),
                           enqueued |-> Cardinality(DOMAIN queueDir' \ DOMAIN queueDir)]
            /\ UNCHANGED <<now, deadDir, warnings, setupFlag, creds, enableRag, ingested>>
            /\ UNCHANGED <<gateVars, restVars>>

\* the Stop hook on any payload of StopPayloads
Stop == StopOn(StopPayloads)

\* append_notes(digest), rotation included, for a DIGEST it accepts
AppendNotes ==
    /\ noteCount < MaxAppends
    /\ \E d \in {DWithFiles} :
          /\ ~AppendNotesRaises(d)
          /\ \E notes \in { append_notes([sections |-> journal, archive |-> archive],
                                          d, now) } :
                /\ journal' = notes.sections
                /\ archive' = notes.archive
    /\ noteCount' = noteCount + 1
    /\ stopLog' = NoStop
    /\ UNCHANGED <<wsi, placeholders, wsiLog, claudeMd, statusLog, compactSummary, compactLog>>
    /\ UNCHANGED <<queueVars, gateVars, restVars>>

\* the files a DIGEST of the WSI behaviours lists
FilePaths ==
    <<"src/f01.py", "src/f02.py", "src/f03.py", "src/f04.py", "src/f05.py",
      "src/f06.py", "src/f07.py", "src/f08.py", "src/f09.py", "src/f10.py",
      "src/f11.py", "src/f12.py">>

Span(lo, hi) == [i \in 1..(hi - lo + 1) |-> FileRec("object", FilePaths[lo + i - 1])]

\* files lists: disjoint and overlapping runs of paths, a path that is listed
\* twice, a path alone, and a path of the head of the list together with new ones
WsiFileLists ==
    { Span(1, 6), Span(5, 11), Span(3, 12), Span(1, 1),
      <<FileRec("object", FilePaths[12]), FileRec("object", FilePaths[12])>>,
      <<FileRec("object", FilePaths[1])>> \o Span(7, 11) }

\* refresh_wsi(digest, None) on the persisted WSI
RefreshWsi ==
    /\ wsiLog.calls < MaxRefreshes
    /\ \E files \in WsiFileLists :
         LET d == [DGood EXCEPT !.files = files]
         IN  /\ ~RefreshWsiRaises(d)
             /\ wsi' = refresh_wsi(wsi, d, now)
             /\ wsiLog' = [ran |-> TRUE, files |-> files, before |-> wsi,
                           uncapped |-> Len(RefreshLoop(wsi, wsi, files, now)),
                           calls |-> wsiLog.calls + 1]
    /\ placeholders' = TRUE
    /\ stopLog' = NoStop
    /\ UNCHANGED <<journal, archive, noteCount, claudeMd, statusLog, compactSummary, compactLog>>
    /\ UNCHANGED <<queueVars, gateVars, restVars>>

(***************************************************************************)
(* project_status.py: the <project_status> block of CLAUDE.md.  A text is  *)
(* a sequence of tokens: a line break, a run of other text, the anchor tag *)
(* </context_engineering>, or a block from <project_status> to             *)
(* </project_status> with the status it was rendered from.                 *)
(***************************************************************************)
NoStatusData == [updated_at |-> 0, queue |-> 0]

Tok(kind, status) == [kind |-> kind, status |-> status]

NL == Tok("nl", NoStatusData)
TextRun == Tok("text", NoStatusData)
AnchorTag == Tok("anchor", NoStatusData)

\* the freshness fields of _collect_status: the clock and the number of queued jobs
collect_status(q, t) == [updated_at |-> t, queue |-> Cardinality(DOMAIN q)]

\* "\n".join(lines) + "\n": the block and the line break after its end tag
render_status_block(status) == << Tok("block", status), NL >>

RECURSIVE RemoveBlocks(_)
\* re.sub of every <project_status> ... </project_status> span with ""
RemoveBlocks(md) ==
    IF md = <<>> THEN <<>>
    ELSE IF Head(md).kind = "block" THEN RemoveBlocks(Tail(md))
    ELSE <<Head(md)>> \o RemoveBlocks(Tail(md))

\* cleaned.find("</context_engineering>"), 0 for -1
AnchorIndex(md) ==
    LET found == {i \in 1..Len(md) : md[i].kind = "anchor"}
    IN  IF found = {} THEN 0 ELSE CHOOSE i \in found : \A j \in found : i <= j

insert_or_replace_block(md_text, block_text) ==
    LET cleaned == RemoveBlocks(md_text)
        idx     == AnchorIndex(cleaned)
    IN  IF idx # 0
        THEN SubSeq(cleaned, 1, idx) \o <<NL, NL>> \o block_text \o <<NL>>
                \o SubSeq(cleaned, idx + 1, Len(cleaned))
        ELSE block_text \o <<NL>> \o cleaned

\* skip: DISABLE_CLAUDE_MD_UPDATE is set or the root is the protected ~/.claude
update_claude_md(before, q, t, skip) ==
    IF skip THEN [text |-> before, ok |-> TRUE, updated |-> FALSE, skipped |-> TRUE]
    ELSE IF before = <<>>
         THEN [text |-> before, ok |-> FALSE, updated |-> FALSE, skipped |-> FALSE]
    ELSE LET new_text == insert_or_replace_block(before,
                             render_status_block(collect_status(q, t)))
         IN  [text |-> new_text, ok |-> TRUE, updated |-> new_text # before,
              skipped |-> FALSE]

\* CLAUDE.md before the first run: with the anchor tag, without it, missing
StatusDocs ==
    { <<TextRun, NL, AnchorTag, NL, NL, TextRun, NL>>,
      <<TextRun, NL, NL, TextRun, NL>>,
      <<>> }

\* rendered: the run rendered a block; prev: the status the run before it
\* rendered from, when that run rendered one and nothing else wrote CLAUDE.md
NoStatus == [ran |-> FALSE, rendered |-> FALSE, updated |-> FALSE, before |-> <<>>,
             status |-> NoStatusData, twice |-> FALSE, prev |-> NoStatusData,
             runs |-> 0]

\* project_status.py --update-claude-md
UpdateClaudeMd ==
    /\ statusLog.runs < MaxUpdates
    /\ \E skip \in BOOLEAN :
         \E r \in { update_claude_md(claudeMd, queueDir, now, skip) } :
            LET rendered == r.ok /\ ~r.skipped
            IN  /\ claudeMd' = r.text
                /\ statusLog' = [ran |-> TRUE, rendered |-> rendered,
                                 updated |-> r.updated, before |-> claudeMd,
                                 status |-> collect_status(queueDir, now),
                                 twice |-> rendered /\ statusLog.rendered,
                                 prev |-> statusLog.status,
                                 runs |-> statusLog.runs + 1]
    /\ UNCHANGED <<journal, archive, wsi, placeholders, stopLog, noteCount, wsiLog>>
    /\ UNCHANGED <<compactSummary, compactLog>>
    /\ UNCHANGED <<queueVars, gateVars, restVars>>

(***************************************************************************)
(* precompact_summary.py.  A text is a sequence of parts: an entry of the  *)
(* journal as append_notes writes it (a heading and bullet lists), or a    *)
(* fenced ```json DIGEST {...}``` block.                                  *)
(***************************************************************************)
MAX_DIGESTS == 8

\* the block append_notes writes: the heading with agent and task, the
\* bullets of the decisions, one line per file
NotesMarkdown(block) ==
    [kind |-> "entry",
     agent |-> Get(block.digest, "agent", "UNKNOWN"),
     task |-> Get(block.digest, "task_id", "untagged"),
     decisions |-> block.digest.decisions,
     files |-> block.digest.files]

\* NOTES.md as PreCompact reads it
JournalText(sections) ==
    LET entries == Flatten(sections)
    IN  [i \in 1..Len(entries) |-> NotesMarkdown(entries[i])]

Fenced(d) == [kind |-> "fenced", digest |-> d]

IsFenced(part) == part.kind = "fenced"

\* the JSON objects of the matches of DIGEST_RE, in order
extract_digests_from_text(text) ==
    LET found == SelectSeq(text, IsFenced)
    IN  [i \in 1..Len(found) |-> found[i].digest]

LastN(seq, n) == IF Len(seq) > n THEN SubSeq(seq, Len(seq) - n + 1, Len(seq)) ELSE seq

\* the payload: its assistant_text
extract_digests_from_payload(payload) ==
    LastN(extract_digests_from_text(payload), MAX_DIGESTS)

DOther == [MkDigest("IE", "t-2", "", "", "", <<"d1", "d3">>)
              EXCEPT !.files = <<FileRec("object", "src/a.py"),
                                 FileRec("object", "src/b.py")>>]

CompactDigests == {DWithFiles, DOther}

CompactPayloads ==
    UNION { [1..k -> {Fenced(d) : d \in CompactDigests}] : k \in 0..MaxPayloadDigests }

\* the files git status and the hooks directory report as changed
GitChanges == { <<>>, <<"src/a.py">> }

\* the DIGEST main() makes up from the changed files
synthetic_digest(changed) ==
    [MkDigest("Main Agent (Direct Work)", Absent, "", "", "",
              <<"Configuration and hook updates">>)
        EXCEPT !.files = [i \in 1..Len(changed) |-> FileRec("object", changed[i])]]

RECURSIVE DedupeFrom(_, _)
DedupeFrom(seq, seen) ==
    IF seq = <<>> THEN <<>>
    ELSE IF Head(seq) \in seen THEN DedupeFrom(Tail(seq), seen)
    ELSE <<Head(seq)>> \o DedupeFrom(Tail(seq), seen \cup {Head(seq)})

dedupe(seq) == DedupeFrom(seq, {})

\* d.get("agent") or "UNKNOWN"
AgentOf(d) == IF d.agent = Absent \/ d.agent = "" THEN "UNKNOWN" ELSE d.agent

\* the order of Python's string comparison on the agents of the model
AgentRank(a) ==
    CASE a = "IE" -> 1
      [] a = "Main Agent (Direct Work)" -> 2
      [] a = "RC" -> 3
      [] OTHER -> 4

RECURSIVE SortedAgents(_)
\* sorted(list(agents_seen))
SortedAgents(agents) ==
    IF agents = {} THEN <<>>
    ELSE LET first == CHOOSE a \in agents : \A b \in agents : AgentRank(a) <= AgentRank(b)
         IN  <<first>> \o SortedAgents(agents \ {first})

RECURSIVE AllDecisions(_)
AllDecisions(digests) ==
    IF digests = <<>> THEN <<>>
    ELSE Head(digests).decisions \o AllDecisions(Tail(digests))

\* the files of a DIGEST that have a path, each as {path, reason}
FilesOf(d) ==
    LET withPath == SelectSeq(d.files, LAMBDA f : f.path # "")
    IN  [i \in 1..Len(withPath) |-> [path |-> withPath[i].path, reason |-> ""]]

RECURSIVE AllFiles(_)
AllFiles(digests) ==
    IF digests = <<>> THEN <<>>
    ELSE FilesOf(Head(digests)) \o AllFiles(Tail(digests))

\* the DIGESTs of the model carry no "next" and no "contracts"; a journal
\* written by append_notes has no "## Open Questions" or "## Risks" section
build_summary(digests, notes_text) ==
    LET files == AllFiles(digests)
    IN  [agents_seen |-> SortedAgents({AgentOf(digests[i]) : i \in 1..Len(digests)}),
         decisions |-> dedupe(AllDecisions(digests)),
         open_questions |-> <<>>,
         owned_artifacts |-> dedupe([i \in 1..Len(files) |-> files[i].path]),
         contracts_touched |-> dedupe(<<>>),
         files_touched |-> files,
         risks |-> <<>>,
         next_steps |-> dedupe(<<>>)]

precompact_main(payload, sections, changed) ==
    LET notes_text == JournalText(sections)
        scraped == extract_digests_from_text(notes_text)
        fromPayload == IF scraped # <<>> THEN scraped
                       ELSE extract_digests_from_payload(payload)
        digests == IF fromPayload # <<>> THEN fromPayload
                   ELSE IF changed # <<>> THEN <<synthetic_digest(changed)>>
                   ELSE <<>>
    IN  [scraped |-> scraped, digests |-> digests,
         summary |-> build_summary(digests, notes_text)]

NoCompactSummary == build_summary(<<>>, <<>>)

NoCompact == [ran |-> FALSE, scraped |-> <<>>, digests |-> <<>>, entries |-> <<>>]

\* precompact_summary.py main()
PreCompact ==
    /\ \E payload \in CompactPayloads, changed \in GitChanges :
         \E r \in { precompact_main(payload, journal, changed) } :
            /\ compactSummary' = r.summary
            /\ compactLog' = [ran |-> TRUE, scraped |-> r.scraped, digests |-> r.digests,
                              entries |-> Flatten(journal)]
    /\ UNCHANGED <<journal, archive, wsi, placeholders, stopLog, noteCount, wsiLog,
                   claudeMd, statusLog>>
    /\ UNCHANGED <<queueVars, gateVars, restVars>>

StatusIdle ==
    /\ claudeMd = <<>>
    /\ statusLog = NoStatus
    /\ compactSummary = NoCompactSummary
    /\ compactLog = NoCompact

CoordinatorIdle ==
    /\ journal = <<>>
    /\ archive = EmptyDir
    /\ noteCount = 0
    /\ wsi = <<>>
    /\ placeholders = FALSE
    /\ stopLog = NoStop
    /\ wsiLog = NoRefresh

StopIdle ==
    /\ CoordinatorIdle
    /\ StatusIdle

(***************************************************************************)
(* The PreToolUse policy gate (pretooluse_validate.py) and the prompt hook *)
(* that records markdown approvals (md_request_detector.py).               *)
(*                                                                         *)
(* A string is a sequence of tokens; `in`, endswith and == compare token   *)
(* sequences, and lower() maps each token.                                 *)
(***************************************************************************)
TYPECHECK_INTERVAL == 20
CACHE_TURNS == 10
PRUNE_INTERVAL == 10
CHECKPOINT_INTERVAL == 50
BLOCK_AFTER == 3
TAIL_CHARS == 500
APPROVAL_SECS == 5 * 60

LowerTok(tok) ==
    CASE tok = "API" -> "api"
      [] tok = "README" -> "readme"
      [] OTHER -> tok

Lower(str) == [i \in 1..Len(str) |-> LowerTok(str[i])]

\* needle in hay
Contains(hay, needle) ==
    \E i \in 0..(Len(hay) - Len(needle)) : SubSeq(hay, i + 1, i + Len(needle)) = needle

\* hay.endswith(suffix)
EndsWith(hay, suffix) ==
    /\ Len(suffix) <= Len(hay)
    /\ SubSeq(hay, Len(hay) - Len(suffix) + 1, Len(hay)) = suffix

ContainsAny(hay, needles) == \E needle \in needles : Contains(hay, needle)

\* Path(file_path).name
PathName(path) ==
    LET seps == {i \in 1..Len(path) : path[i] = "/"}
        last == IF seps = {} THEN 0 ELSE CHOOSE i \in seps : \A j \in seps : j <= i
    IN  SubSeq(path, last + 1, Len(path))

\* the paths and commands of the tool calls followed
XTs        == <<"/", "src", "/", "x", ".ts">>
GonePy     == <<"/", "src", "/", "gone", ".py">>
SchemaPath == <<"/", "prisma", "/", "schema", ".prisma">>
MigrationSql == <<"/", "db", "/", "migrations", "/", "001", ".sql">>
ApiMd      == <<"/", "docs", "/", "api", ".md">>
ApiMdUpper == <<"/", "docs", "/", "API", ".md">>
ReadmeMd   == <<"/", "README", ".md">>
ReleaseNotesMd == <<"/", "docs", "/", "release-", "notes", ".md">>
MigrationMd == <<"/", "db", "/", "migrations", "/", "plan", ".md">>
NoPath     == <<>>

NpmUninstall == <<"npm uninstall", " ", "left-pad">>
RmRf       == <<"rm -rf", " ", "build">>
LsCommand  == <<"ls">>
RmRfTools  == <<"rm -rf", " ", "too", "ls">>
TruncateUsers == <<"trun", "cat", "e", " table ", "users">>
SudoReboot == <<"sudo", " ", "reboot">>
NoCommand  == <<>>

\* the payload on stdin
ToolCall(blank, tool, path, command) ==
    [blank |-> blank, tool |-> tool, file_path |-> path, command |-> command]

BlankCall == ToolCall(TRUE, "", NoPath, NoCommand)

\* reads and edits of source files
ReadInputs ==
    { BlankCall, ToolCall(FALSE, "Edit", XTs, NoCommand) }
    \cup { ToolCall(FALSE, "Read", p, NoCommand) : p \in {XTs, GonePy} }

\* edits of schema files and shell commands
SchemaInputs ==
    { ToolCall(FALSE, t, p, NoCommand) :
        t \in {"Edit", "Write", "MultiEdit"}, p \in {SchemaPath, MigrationSql} }
    \cup { ToolCall(FALSE, "Bash", NoPath, c) : c \in {NpmUninstall, RmRf, LsCommand} }

\* shell commands and edits around the checkpoint triggers
TriggerInputs ==
    { ToolCall(FALSE, "Bash", NoPath, c) :
        c \in {RmRf, RmRfTools, TruncateUsers, SudoReboot, LsCommand} }
    \cup { ToolCall(FALSE, "Edit", XTs, NoCommand) }

\* edits of code, hook and configuration files
HookPy      == <<"/", "claude-hooks", "/", "src", "/", "h", ".py">>
SettingsJson == <<"/", "src", "/", "settings", ".json">>
MigrationTs == <<"/", "src", "/", "migrations", "/", "001", ".ts">>

RoutingInputs ==
    { ToolCall(FALSE, "Edit", p, NoCommand) : p \in {XTs, HookPy, SettingsJson, MigrationTs} }
    \cup { ToolCall(FALSE, "Read", XTs, NoCommand) }

\* writes of markdown files
MarkdownInputs ==
    { ToolCall(FALSE, "Write", p, NoCommand) :
        p \in {ApiMd, ApiMdUpper, ReadmeMd, ReleaseNotesMd, MigrationMd} }

\* stderr headlines
NoHeadline       == ""
SchemaBlocked    == "SCHEMA CHANGE BLOCKED"
TypecheckErrors  == "errors found"
DuplicateBlocked == "DUPLICATE READ BLOCKED"
DuplicateWarning == "Duplicate Read Warning"
DependencyBlocked == "DEPENDENCY REMOVAL BLOCKED"
RoutingReminder  == "ROUTING POLICY REMINDER"
MdSpamBlocked    == "MARKDOWN SPAM PREVENTION"
MdApproved       == "MD Creation Approved"

\* prune_wsi
prune_wsi(items) ==
    IF Len(items) > WSI_CAP
    THEN SubSeq(items, Len(items) - WSI_CAP + 1, Len(items))
    ELSE items

\* whether main() calls run_checkpoint (lines 205-261)
CheckpointNeeded(data, turn) ==
    LET tool == data.tool
        path == Lower(data.file_path)
        command == Lower(data.command)
        schema == tool \in {"Edit", "Write", "MultiEdit"}
                  /\ ContainsAny(path, { <<"schema", ".prisma">>, <<"migrations", "/">>,
                                         <<".sql">>, <<"alembic">>, <<"migrate">>,
                                         <<"models", ".py">>, <<"models", ".ts">> })
        config == tool \in {"Edit", "Write"}
                  /\ ContainsAny(path, { <<"package", ".json">>, <<"pyproject", ".toml">>,
                                         <<"requirements", ".txt">>, <<".env">>,
                                         <<"config", ".json">>, <<"settings", ".json">> })
        danger == tool = "Bash"
                  /\ ContainsAny(command, { <<"rm -rf">>, <<"rm -fr">>, <<"drop table">>,
                                            <<"drop database">>, <<"delete from">>,
                                            <<"trun", "cat", "e">>, <<"prisma migrate">>,
                                            <<"> /dev/null 2>&1">>, <<"sudo">>,
                                            <<"chmod 777">> })
        removal == tool = "Bash"
                   /\ ContainsAny(command, { <<"npm uninstall">>, <<"pip uninstall">>,
                                             <<"pnpm remove">>, <<"yarn remove">>,
                                             <<"apt remove">>, <<"brew uninstall">> })
        periodic == turn % CHECKPOINT_INTERVAL = 0
        safe == ContainsAny(data.command, { <<"git">>, <<"ls">>, <<"cat">>, <<"grep">>,
                                            <<"find">> })
    IN  (schema \/ config \/ danger \/ removal \/ periodic) /\ ~safe

\* an entry of <cwd>/NOTES.md: its agent, whether it is written as JSON
\* ("agent": "DME") or as a heading (## [ts] DME - task), the offset of the
\* word agent in it and its size in characters
NotesEntry(agent, json, marker_at, size) ==
    [agent |-> agent, json |-> json, marker_at |-> marker_at, size |-> size]

NotesEntries ==
    { NotesEntry("DME", TRUE, 2, 120), NotesEntry("DME", FALSE, 0, 120),
      NotesEntry("RC", TRUE, 2, 120), NotesEntry("IDS", TRUE, 2, 600) }

\* characters from the start of entry i to the end of the file
RECURSIVE SizeFrom(_, _)
SizeFrom(notes, i) == IF i > Len(notes) THEN 0 ELSE notes[i].size + SizeFrom(notes, i + 1)

\* 'agent": "<agent>"' in content[-500:]
MarkerInTail(notes, agent) ==
    \E i \in 1..Len(notes) :
        /\ notes[i].json /\ notes[i].agent = agent
        /\ SizeFrom(notes, i) - notes[i].marker_at <= TAIL_CHARS

\* the first lines of check_duplicate_read: entries older than CACHE_TURNS go
CleanCache(cache, turn) ==
    [k \in {k \in DOMAIN cache : turn - cache[k].turn <= CACHE_TURNS} |-> cache[k]]

\* check_duplicate_read: [cache, verdict]
check_duplicate_read(cache0, turn, path, files) ==
    LET cache == CleanCache(cache0, turn)
    IN  IF path \notin DOMAIN files \/ files[path] = 0
        THEN [cache |-> cache0, verdict |-> "False"]
        ELSE IF /\ path \in DOMAIN cache
                /\ cache[path].hash = files[path]
                /\ turn - cache[path].turn <= CACHE_TURNS
        THEN LET duplicate_count == cache[path].duplicate_attempts + 1
             IN  [cache |-> [cache EXCEPT ![path].duplicate_attempts = duplicate_count],
                  verdict |-> IF duplicate_count >= BLOCK_AFTER THEN "BLOCK" ELSE "WARN"]
        ELSE [cache |-> Put(cache, path, [hash |-> files[path], turn |-> turn,
                                           duplicate_attempts |-> 0]),
              verdict |-> "False"]

\* md_request_state.json; timestamp 0 stands for null
MdState(exists, timestamp, approved_files) ==
    [exists |-> exists, timestamp |-> timestamp, approved_files |-> approved_files]
NoMdState == MdState(FALSE, 0, <<>>)

Permissive == <<"*PERMISSIVE*">>

allowed_auto_create ==
    { <<"feature_map", ".md">>, <<"notes", ".md">>, <<"compaction", ".md">>,
      <<"changelog", ".md">>, <<"readme", ".md">>, <<"claude", ".md">> }

\* the test of one approved entry against the path (lines 518-520)
ApprovalMatches(file_path, approved) ==
    \/ EndsWith(file_path, approved)
    \/ Lower(PathName(file_path)) = Lower(approved)
    \/ Contains(Lower(file_path), approved)

\* the approval check of the markdown gate: [approved, state]
CheckMdApproval(state, file_path, t) ==
    IF ~state.exists \/ state.timestamp = 0 \/ t - state.timestamp > APPROVAL_SECS
    THEN [approved |-> FALSE, state |-> state]
    ELSE IF \E i \in 1..Len(state.approved_files) : state.approved_files[i] = Permissive
    THEN [approved |-> TRUE, state |-> state]
    ELSE LET hits == {i \in 1..Len(state.approved_files) :
                        ApprovalMatches(file_path, state.approved_files[i])}
         IN  IF hits = {} THEN [approved |-> FALSE, state |-> state]
             ELSE LET first == CHOOSE i \in hits : \A j \in hits : i <= j
                      \* list.remove(approved): the first equal element goes
                      same  == {i \in 1..Len(state.approved_files) :
                                  state.approved_files[i] = state.approved_files[first]}
                      gone  == CHOOSE i \in same : \A j \in same : i <= j
                      rest  == SubSeq(state.approved_files, 1, gone - 1)
                               \o SubSeq(state.approved_files, gone + 1,
                                         Len(state.approved_files))
                  IN  [approved |-> TRUE,
                       state |-> [state EXCEPT !.approved_files = rest]]

\* the places in approved_files of the entries the approval check approves
\* the path on: every sentinel when there is one, else the first entry that
\* matches; none when the check approves nothing
ApprovingEntries(state, file_path, t) ==
    IF ~CheckMdApproval(state, file_path, t).approved THEN {}
    ELSE LET sentinels == {i \in 1..Len(state.approved_files) :
                             state.approved_files[i] = Permissive}
             hits == {i \in 1..Len(state.approved_files) :
                        ApprovalMatches(file_path, state.approved_files[i])}
         IN  IF sentinels # {} THEN sentinels
             ELSE {CHOOSE i \in hits : \A j \in hits : i <= j}

RemoveAt(seq, i) == SubSeq(seq, 1, i - 1) \o SubSeq(seq, i + 1, Len(seq))

\* the test of the schema-change block on the tool and the path (lines 264-266)
SchemaChangeEditOnly(tool, file_path) ==
    /\ tool = "Edit"
    /\ ( Contains(Lower(file_path), <<"schema", ".prisma">>)
         \/ Contains(Lower(file_path), <<"/", "migrations", "/">>) )

SchemaChange(tool, file_path) ==
    /\ tool \in {"Edit", "Write", "MultiEdit"}
    /\ ( Contains(Lower(file_path), <<"schema", ".prisma">>)
         \/ Contains(Lower(file_path), <<"/", "migrations", "/">>) )

\* the routing advisory without the exception for infrastructure directories
RoutingAppliesEverywhere(tool, file_path) ==
    /\ tool \in {"Edit", "Write", "MultiEdit", "NotebookEdit"}
    /\ \E ext \in { <<".ts">>, <<".tsx">>, <<".js">>, <<".jsx">>, <<".py">>, <<".java">>,
                     <<".cpp">>, <<".c">>, <<".rs">>, <<".go">>, <<".rb">> } :
            EndsWith(file_path, ext)
    /\ ContainsAny(file_path, { <<"/", "lib", "/">>, <<"/", "app", "/">>,
                                <<"/", "components", "/">>, <<"/", "src", "/">>,
                                <<"/", "packages", "/">> })

\* the test of the routing advisory on the tool and the path (lines 430-446)
RoutingApplies(tool, file_path) ==
    LET is_code_file == \E ext \in { <<".ts">>, <<".tsx">>, <<".js">>, <<".jsx">>, <<".py">>,
                                     <<".java">>, <<".cpp">>, <<".c">>, <<".rs">>, <<".go">>,
                                     <<".rb">> } : EndsWith(file_path, ext)
        is_project_code == ContainsAny(file_path,
                              { <<"/", "lib", "/">>, <<"/", "app", "/">>,
                                <<"/", "components", "/">>, <<"/", "src", "/">>,
                                <<"/", "packages", "/">> })
        is_allowed_direct == ContainsAny(file_path,
                                { <<"/", "claude-hooks", "/">>, <<"/", ".claude", "/">>,
                                  <<"/", "scripts", "/">> })
    IN  /\ tool \in {"Edit", "Write", "MultiEdit", "NotebookEdit"}
        /\ is_code_file /\ is_project_code /\ ~is_allowed_direct

GateResult(turn, cache, items, md, exit, headline, named, checkpoint) ==
    [turn |-> turn, cache |-> cache, items |-> items, md |-> md, exit |-> exit,
     headline |-> headline, named |-> named, checkpoint |-> checkpoint]

\* main(): the gates in the order of the code; typecheck_fails: the project
\* has a package.json whose type-check script exits non-zero (the exits of
\* the Python branch are swallowed by its bare except clauses)
pretooluse_main(data, typecheck_fails, t) ==
    IF data.blank
    THEN GateResult(turn_count, file_hashes, wsi, md_state, 0, NoHeadline, NoPath, FALSE)
    ELSE
    LET turn  == turn_count + 1
        items == IF turn % PRUNE_INTERVAL = 0 THEN prune_wsi(wsi) ELSE wsi
        cp    == CheckpointNeeded(data, turn)
        tool  == data.tool
        file_path == data.file_path
        edits == tool \in {"Edit", "Write", "MultiEdit"}
        Exit(code, headline, named) ==
            GateResult(turn, file_hashes, items, md_state, code, headline, named, cp)
        schema_hit == SchemaChange(tool, file_path)
        modified_files == edits /\ ContainsAny(Lower(file_path),
                                      { <<".ts">>, <<".tsx">>, <<".js">>, <<".jsx">>, <<".py">> })
        typecheck_runs == /\ turn % TYPECHECK_INTERVAL = 0
                          /\ (modified_files \/ turn % (TYPECHECK_INTERVAL * 2) = 0)
        dup == check_duplicate_read(file_hashes, turn, file_path, workFiles)
        removal == tool = "Bash"
                   /\ ContainsAny(Lower(data.command),
                         { <<"npm uninstall">>, <<"pip uninstall">>, <<"pnpm remove">> })
        routing == RoutingApplies(tool, file_path)
        md_write == tool = "Write" /\ EndsWith(Lower(file_path), <<".md">>)
        is_system_file == ContainsAny(Lower(PathName(file_path)), allowed_auto_create)
        approval == CheckMdApproval(md_state, file_path, t)
    IN  IF schema_hit /\ ~MarkerInTail(projectNotes, "DME")
            THEN Exit(2, SchemaBlocked, file_path)
        ELSE IF typecheck_runs /\ typecheck_fails
            THEN Exit(1, TypecheckErrors, NoPath)
        ELSE IF tool = "Read" /\ dup.verdict = "BLOCK"
            THEN [Exit(2, DuplicateBlocked, file_path) EXCEPT !.cache = dup.cache]
        ELSE IF tool = "Read" /\ dup.verdict = "WARN"
            THEN [Exit(1, DuplicateWarning, file_path) EXCEPT !.cache = dup.cache]
        ELSE IF removal /\ ~MarkerInTail(projectNotes, "IDS")
            THEN Exit(2, DependencyBlocked, NoPath)
        ELSE IF routing
            THEN Exit(1, RoutingReminder, file_path)
        ELSE IF md_write /\ ~is_system_file /\ ~approval.approved
            THEN Exit(2, MdSpamBlocked, file_path)
        ELSE IF md_write /\ ~is_system_file
            THEN [Exit(0, MdApproved, file_path) EXCEPT !.md = approval.state]
        ELSE IF tool = "Read"
            THEN [Exit(0, NoHeadline, NoPath) EXCEPT !.cache = dup.cache]
        ELSE Exit(0, NoHeadline, NoPath)

NoGate ==
    [ran |-> FALSE, data |-> BlankCall, exit |-> 0,
     headline |-> NoHeadline, named |-> NoPath, checkpoint |-> FALSE, turn |-> 0]

NoRun == [path |-> NoPath, codes |-> <<>>]

\* the run of Reads after one more invocation: a run starts with a Read of an
\* existing file on an empty hash cache and goes on while the same file is read
NextRun(run, data, exit, cache_before) ==
    IF data.blank \/ data.tool # "Read" THEN NoRun
    ELSE IF data.file_path \notin DOMAIN workFiles \/ workFiles[data.file_path] = 0 THEN NoRun
    ELSE IF run.codes = <<>>
         THEN IF DOMAIN cache_before = {}
              THEN [path |-> data.file_path, codes |-> <<exit>>]
              ELSE NoRun
    ELSE IF run.path = data.file_path THEN [run EXCEPT !.codes = Append(@, exit)]
    ELSE NoRun

\* the counter values a behaviour of the gate starts from
GateStarts == {0, 36}
TriggerStarts == {0, 48}
TurnStarts == GateStarts \cup TriggerStarts

PreToolUse(inputs) ==
    \E data \in inputs, typecheck_fails \in BOOLEAN :
        \E r \in { pretooluse_main(data, typecheck_fails, now) } :
            /\ \E start \in TurnStarts : turn_count - start \in 0..(MaxGateTurns - 1)
            /\ turn_count' = r.turn
            /\ file_hashes' = r.cache
            /\ wsi' = r.items
            /\ md_state' = r.md
            /\ approvalTimes' =
                   IF r.md.approved_files # md_state.approved_files
                   THEN RemoveAt(approvalTimes,
                                 CHOOSE i \in ApprovingEntries(md_state, data.file_path,
                                                                now) : TRUE)
                   ELSE approvalTimes
            /\ gateLog' = [ran |-> TRUE, data |-> data, exit |-> r.exit,
                           headline |-> r.headline, named |-> r.named,
                           checkpoint |-> r.checkpoint, turn |-> r.turn]
            /\ readRun' = NextRun(readRun, data, r.exit, file_hashes)
            /\ UNCHANGED <<workFiles, projectNotes, restVars>>
            /\ UNCHANGED <<queueVars, journal, archive, placeholders, stopLog, noteCount, wsiLog,
                           claudeMd, statusLog, compactSummary, compactLog>>

ReadCalls == PreToolUse(ReadInputs)
SchemaCalls == PreToolUse(SchemaInputs)
TriggerCalls == PreToolUse(TriggerInputs)
MarkdownCalls == PreToolUse(MarkdownInputs)
RoutingCalls == PreToolUse(RoutingInputs)

\* an editor or a tool changes the content of a project file
ModifyFile ==
    /\ \E path \in {XTs} :
          workFiles' = [workFiles EXCEPT ![path] = IF @ = 1 THEN 2 ELSE 1]
    /\ gateLog' = NoGate
    /\ readRun' = NoRun
    /\ UNCHANGED <<turn_count, file_hashes, projectNotes, md_state, approvalTimes>>
    /\ UNCHANGED <<queueVars, stopVars, restVars>>

\* a hook or an agent appends an entry to <cwd>/NOTES.md
WriteProjectNotes ==
    /\ Len(projectNotes) < MaxNotes
    /\ \E entry \in NotesEntries : projectNotes' = Append(projectNotes, entry)
    /\ gateLog' = NoGate
    /\ readRun' = NoRun
    /\ UNCHANGED <<turn_count, file_hashes, workFiles, md_state, approvalTimes>>
    /\ UNCHANGED <<queueVars, stopVars, restVars>>

\* md_request_detector.py: the file names a user prompt asks for
ApiName   == <<"api", ".md">>
DocsApi   == <<"docs", "/", "api", ".md">>
DocsApiUpper == <<"docs", "/", "API", ".md">>
MdRequests == { <<ApiName>>, <<Permissive>>, <<DocsApi, DocsApiUpper>> }

clean_old_approvals(state, t) ==
    IF state.timestamp # 0 /\ t - state.timestamp > APPROVAL_SECS
    THEN MdState(state.exists, 0, <<>>)
    ELSE state

\* md_request_detector.py main() on a prompt that asks for markdown files
MdRequest ==
    /\ \E requested \in MdRequests :
          LET state == clean_old_approvals(md_state, now)
          IN  /\ Len(state.approved_files) + Len(requested) <= MaxApprovals
              /\ md_state' = MdState(TRUE, now, state.approved_files \o requested)
              /\ approvalTimes' =
                     (IF state = md_state THEN approvalTimes ELSE <<>>)
                     \o [i \in 1..Len(requested) |-> now]
    /\ gateLog' = NoGate
    /\ readRun' = NoRun
    /\ UNCHANGED <<turn_count, file_hashes, workFiles, projectNotes>>
    /\ UNCHANGED <<queueVars, stopVars, restVars>>

\* time passes between a prompt and a tool call
WaitSecs == APPROVAL_SECS \div 2

Wait ==
    /\ now < StartTime + MaxWaits * WaitSecs
    /\ now' = now + WaitSecs
    /\ gateLog' = NoGate
    /\ readRun' = NoRun
    /\ UNCHANGED <<turn_count, file_hashes, workFiles, projectNotes, md_state,
                   approvalTimes>>
    /\ UNCHANGED <<queueDir, deadDir, nextId, warnings, setupFlag, creds, enableRag,
                   ingested, summary, passLog>>
    /\ UNCHANGED <<stopVars, restVars>>

GateIdle ==
    /\ turn_count = 0
    /\ file_hashes = EmptyDir
    /\ workFiles = [path \in {XTs, GonePy} |-> IF path = XTs THEN 1 ELSE 0]
    /\ projectNotes = <<>>
    /\ md_state = NoMdState
    /\ approvalTimes = <<>>
    /\ gateLog = NoGate
    /\ readRun = NoRun

(***************************************************************************)
(* checkpoint_manager.py: a checkpoint is a stash object of the dirty tree *)
(* and a file of CHECKPOINT_DIR that names it.  CHECKPOINT_DIR lies under  *)
(* LOGS_DIR, outside the trees that are compared here.                     *)
(***************************************************************************)
MAX_CHECKPOINTS == 20

RepoPaths == {"a.txt", "new.txt"}

\* a.txt is tracked, with two edits of it; new.txt is a file the commit lacks
Contents(path) == IF path = "a.txt" THEN {0, 1, 2} ELSE {0, 1}

Trees == { t \in [RepoPaths -> {0, 1, 2}] : \A path \in RepoPaths : t[path] \in Contents(path) }

EmptyTree == [path \in RepoPaths |-> 0]
CommittedTree == [path \in RepoPaths |-> IF path = "a.txt" THEN 1 ELSE 0]

Repo(tree, index, head, stashes) ==
    [tree |-> tree, index |-> index, head |-> head, stashes |-> stashes]

\* git status --porcelain prints nothing
StatusClean(repo) == repo.tree = repo.index /\ repo.index = repo.head.tree

\* git add -A
git_add_all(repo) == [repo EXCEPT !.index = repo.tree]

\* the mutation: git stash push, which also resets the tree to HEAD
git_stash_push(repo) ==
    [ok |-> repo.head.exists,
     ref |-> [tree |-> repo.index],
     repo |-> IF repo.head.exists
              THEN [repo EXCEPT !.tree = repo.head.tree, !.index = repo.head.tree]
              ELSE repo]

\* git stash create: a stash object of the index and the tree, nothing else
\* touched; it fails when there is no commit yet
git_stash_create(repo) ==
    [ok |-> repo.head.exists, ref |-> [tree |-> repo.index], repo |-> repo]

\* git stash store
git_stash_store(repo, ref) == [repo EXCEPT !.stashes = Append(@, ref)]

\* git reset HEAD
git_reset_head(repo) ==
    IF repo.head.exists THEN [repo EXCEPT !.index = repo.head.tree] ELSE repo

\* what goes wrong in a call: nothing, cwd is not in a repository, or the
\* named git command runs into its timeout
CheckpointFaults ==
    {"none", "no_repo", "timeout_status", "timeout_add", "timeout_create",
     "timeout_store", "timeout_reset"}

rotate_checkpoints(files) ==
    IF Len(files) > MAX_CHECKPOINTS
    THEN SubSeq(files, Len(files) - MAX_CHECKPOINTS + 1, Len(files))
    ELSE files

\* open(<CHECKPOINT_DIR>/<id>.json, "w") and json.dump: a file of that name is
\* replaced; the directory is listed sorted by name
write_record(files, record) ==
    SelectSeq(files, LAMBDA f : f.id < record.id)
    \o <<record>>
    \o SelectSeq(files, LAMBDA f : f.id > record.id)

\* the record of a creation at second t: checkpoint_id is the time to the
\* second, stash_ref the object git stash create printed
checkpoint_info(repo, t) ==
    [id |-> t, stash_ref |-> git_stash_create(git_add_all(repo)).ref]

\* restore_checkpoint: the stash object git stash apply is run with
restore_checkpoint(files, checkpoint_id) ==
    LET found == SelectSeq(files, LAMBDA f : f.id = checkpoint_id)
    IN  IF found = <<>>
        THEN [success |-> FALSE, applied |-> [tree |-> EmptyTree]]
        ELSE [success |-> TRUE, applied |-> found[1].stash_ref]

CkResult(repo, files, outcome) == [repo |-> repo, files |-> files, outcome |-> outcome]

\* applied: the command that timed out had done its work by then
create_checkpoint(repo, files, fault, applied, t) ==
    IF fault = "no_repo" THEN CkResult(repo, files, "no_repo")
    ELSE IF fault = "timeout_status" THEN CkResult(repo, files, "timeout")
    ELSE IF StatusClean(repo) THEN CkResult(repo, files, "skipped")
    ELSE LET staged  == git_add_all(repo)
             created == git_stash_create(staged)
             stored  == git_stash_store(created.repo, created.ref)
             reset   == git_reset_head(stored)
         IN  IF fault = "timeout_add"
             THEN CkResult(IF applied THEN staged ELSE repo, files, "timeout")
             ELSE IF fault = "timeout_create"
             THEN CkResult(IF applied THEN created.repo ELSE staged, files, "timeout")
             ELSE IF ~created.ok THEN CkResult(created.repo, files, "stash_failed")
             ELSE IF fault = "timeout_store"
             THEN CkResult(IF applied THEN stored ELSE created.repo, files, "timeout")
             ELSE IF fault = "timeout_reset"
             THEN CkResult(IF applied THEN reset ELSE stored, files, "timeout")
             ELSE CkResult(reset,
                           rotate_checkpoints(write_record(files, checkpoint_info(repo, t))),
                           "created")

NoCheckpoint == [ran |-> FALSE, outcome |-> "", dirty |-> FALSE, before |-> EmptyTree]

\* checkpoint_manager.py create
CreateCheckpointWhen(stored) ==
    /\ Len(stashList) \in stored
    /\ \E fault \in CheckpointFaults, applied \in BOOLEAN :
         \E r \in { create_checkpoint(Repo(workTree, gitIndex, gitHead, stashList),
                                       checkpointDir, fault, applied, now) } :
            /\ workTree' = r.repo.tree
            /\ gitIndex' = r.repo.index
            /\ stashList' = r.repo.stashes
            /\ checkpointDir' = r.files
            /\ ckLog' = [ran |-> TRUE, outcome |-> r.outcome,
                         dirty |-> ~StatusClean(Repo(workTree, gitIndex, gitHead, stashList)),
                         before |-> workTree]
            /\ creations' = IF r.outcome = "created"
                          THEN Append(creations,
                                      checkpoint_info(Repo(workTree, gitIndex, gitHead,
                                                           stashList), now))
                          ELSE creations
    /\ UNCHANGED gitHead
    /\ UNCHANGED <<queueVars, stopVars, gateVars, passVars, counterVars>>

CreateCheckpoint == CreateCheckpointWhen(0..(MaxCheckpoints - 1))

\* creations into an empty directory and into one that holds one record less
\* than MAX_CHECKPOINTS
RecordStarts == {0, MAX_CHECKPOINTS - 1}

CreateRecord ==
    CreateCheckpointWhen(UNION { start..(start + MaxRecords - 1) : start \in RecordStarts })

\* a file of the tree is written, created or deleted
EditTree ==
    /\ \E path \in RepoPaths : \E content \in Contents(path) :
         /\ content # workTree[path]
         /\ workTree' = [workTree EXCEPT ![path] = content]
    /\ ckLog' = NoCheckpoint
    /\ UNCHANGED <<gitIndex, gitHead, stashList, checkpointDir, creations>>
    /\ UNCHANGED <<queueVars, stopVars, gateVars, passVars, counterVars>>

\* git add <path>
StagePath ==
    /\ \E path \in RepoPaths :
         /\ gitIndex[path] # workTree[path]
         /\ gitIndex' = [gitIndex EXCEPT ![path] = workTree[path]]
    /\ ckLog' = NoCheckpoint
    /\ UNCHANGED <<workTree, gitHead, stashList, checkpointDir, creations>>
    /\ UNCHANGED <<queueVars, stopVars, gateVars, passVars, counterVars>>

RepoIdle ==
    /\ workTree = CommittedTree
    /\ gitIndex = CommittedTree
    /\ gitHead = [exists |-> TRUE, tree |-> CommittedTree]
    /\ stashList = <<>>
    /\ checkpointDir = <<>>
    /\ ckLog = NoCheckpoint
    /\ creations = <<>>

(***************************************************************************)
(* Drain passes that overlap on one queue directory.  A pass lists the     *)
(* directory, then for each name reads the file, calls the vector client   *)
(* and acts on the result; the steps of two passes interleave.  A file is  *)
(* read or written in one step.                                            *)
(***************************************************************************)
PassIds == {1, 2}

IdlePass == [pc |-> "idle", files |-> <<>>, name |-> 0, job |-> NewJob(DGood, 0),
             started |-> 0, processed |-> 0, max_jobs |-> 0]

\* process_ingest_queue up to the listing of the directory
BeginPass(p) ==
    /\ passes[p].pc = "idle"
    /\ IF ~enableRag THEN
            /\ warnings < MaxWarnings
            /\ warnings' = warnings + 1
            /\ passes' = [passes EXCEPT ![p].pc = "done"]
       ELSE /\ \E files \in SortedByMtime(queueDir), max_jobs \in MaxJobsArgs :
                 passes' = [passes EXCEPT ![p] = [IdlePass EXCEPT !.pc = "loop",
                                                                  !.files = files,
                                                                  !.max_jobs = max_jobs]]
            /\ UNCHANGED warnings
    /\ summary' = NoSummary
    /\ passLog' = EmptyDir
    /\ UNCHANGED <<now, queueDir, deadDir, nextId, setupFlag, creds, enableRag, ingested>>
    /\ UNCHANGED <<stopVars, gateVars, repoVars, counterVars>>

\* the head of the loop for the next name: the limits, the read of the file
\* (a file that is gone cannot be opened: the name is passed over), the
\* backoff test, and the call of the vector client
VisitNext(p) ==
    LET ps == passes[p]
    IN  /\ ps.pc = "loop"
        /\ \/ \* the list is used up, max_jobs is reached, or an earlier call
               \* of the client has used up the time budget
               /\ (ps.files = <<>> \/ ps.processed >= ps.max_jobs \/ ps.processed > 0)
               /\ passes' = [passes EXCEPT ![p].pc = "done"]
           \/ /\ ps.files # <<>>
               /\ ps.processed < ps.max_jobs
               /\ LET n == Head(ps.files)
                  IN  IF n \notin DOMAIN queueDir
                      THEN passes' = [passes EXCEPT ![p].files = Tail(ps.files)]
                      ELSE \E backoff_needed \in
                                compute_backoff_seconds(queueDir[n].attempt_count) :
                             IF /\ queueDir[n].last_attempt # 0
                                /\ (now - queueDir[n].last_attempt) < backoff_needed
                             THEN passes' = [passes EXCEPT ![p].files = Tail(ps.files)]
                             ELSE passes' = [passes EXCEPT ![p].pc = "ingest",
                                                           ![p].name = n,
                                                           ![p].job = queueDir[n],
                                                           ![p].started = now,
                                                           ![p].processed = @ + 1]
        /\ summary' = NoSummary
        /\ passLog' = EmptyDir
        /\ UNCHANGED <<now, queueDir, deadDir, nextId, warnings, setupFlag, creds,
                       enableRag, ingested>>
        /\ UNCHANGED <<stopVars, gateVars, repoVars, counterVars>>

\* the rest of the loop body once the vector client has answered: os.replace
\* raises when the other pass has taken the file away
FinishAttempt(p) ==
    LET ps == passes[p]
        n  == ps.name
    IN  /\ ps.pc = "ingest"
        /\ \E result \in ingest_digest_to_vector(ps.job.digest, creds),
              moveFails \in (IF n \in DOMAIN queueDir THEN BOOLEAN ELSE {TRUE}) :
             \E st \in { AttemptJobAt(PassState(queueDir, deadDir, warnings, setupFlag,
                                                ingested),
                                      n, ps.job, ps.started, now, creds, result,
                                      moveFails) } :
                /\ st.warn <= MaxWarnings
                /\ queueDir' = st.q
                /\ deadDir' = st.d
                /\ warnings' = st.warn
                /\ setupFlag' = st.flag
                /\ ingested' = st.ing
        /\ passes' = [passes EXCEPT ![p].pc = "loop", ![p].files = Tail(ps.files)]
        /\ summary' = NoSummary
        /\ passLog' = EmptyDir
        /\ UNCHANGED <<now, nextId, creds, enableRag>>
        /\ UNCHANGED <<stopVars, gateVars, repoVars, counterVars>>

PassesIdle == passes = [p \in PassIds |-> IdlePass]

(***************************************************************************)
(* PreToolUse invocations that overlap on the counter file.  main() reads  *)
(* the file, adds one and writes it back without a lock; write_text opens  *)
(* the file, which empties it, and then writes the digits at offset 0.     *)
(***************************************************************************)
GateProcs == {1, 2, 3}

RECURSIVE CountText(_)
\* str(count)
CountText(n) == IF n < 10 THEN <<n>> ELSE Append(CountText(n \div 10), n % 10)

RECURSIVE IntOf(_)
\* int(text or "0")
IntOf(text) ==
    IF text = <<>> THEN 0
    ELSE IntOf(SubSeq(text, 1, Len(text) - 1)) * 10 + text[Len(text)]

\* write(text) at offset 0 of a file that holds content
WriteAtStart(content, text) == text \o SubSeq(content, Len(text) + 1, Len(content))

CounterRuns(content, pc, local, started, initial, stored) ==
    [content |-> content, pc |-> pc, local |-> local, started |-> started,
     initial |-> initial, stored |-> stored]

CounterAt(n) ==
    CounterRuns(CountText(n), [p \in GateProcs |-> "idle"], [p \in GateProcs |-> 0], 0, n, n)

CounterIdle == counterRuns = CounterAt(0)

\* load_turn_count in main of invocation p
load_turn_count(p) ==
    /\ counterRuns.pc[p] = "idle"
    /\ counterRuns.started < MaxInvocations
    /\ counterRuns' = [counterRuns EXCEPT !.pc[p] = "loaded",
                                          !.local[p] = IntOf(counterRuns.content),
                                          !.started = @ + 1]
    /\ UNCHANGED turn_count

\* save_turn_count: write_text opens the file for writing
open_turn_count(p) ==
    /\ counterRuns.pc[p] = "loaded"
    /\ counterRuns' = [counterRuns EXCEPT !.pc[p] = "opened", !.content = <<>>]
    /\ turn_count' = 0

\* save_turn_count: write_text writes str(count) and closes the file
save_turn_count(p) ==
    /\ counterRuns.pc[p] = "opened"
    /\ \E content \in { WriteAtStart(counterRuns.content,
                                      CountText(counterRuns.local[p] + 1)) } :
          /\ counterRuns' = [counterRuns EXCEPT !.pc[p] = "idle",
                                                !.content = content,
                                                !.stored = IntOf(content)]
          /\ turn_count' = IntOf(content)

\* the counter steps touch nothing but the counter file
CounterFrame ==
    /\ UNCHANGED <<file_hashes, workFiles, projectNotes, md_state, gateLog, readRun,
                   approvalTimes>>
    /\ UNCHANGED <<queueVars, stopVars, repoVars, passVars>>

LoadTurnCount == (\E p \in GateProcs : load_turn_count(p)) /\ CounterFrame
OpenTurnCount == (\E p \in GateProcs : open_turn_count(p)) /\ CounterFrame
SaveTurnCount == (\E p \in GateProcs : save_turn_count(p)) /\ CounterFrame

RestIdle == RepoIdle /\ PassesIdle /\ CounterIdle

(***************************************************************************)
(* Initial states of the queue: the directories hold job files that        *)
(* earlier runs left: fresh jobs, and jobs that failed k times, the last   *)
(* time one nominal backoff ago.                                           *)
(***************************************************************************)
FailedJob(k, digest) ==
    LET t == StartTime - BACKOFF_BASE * Pow2(k - 1)
    IN  JobFile(k, t, "unknown error", "queued", digest, t)

InitJobFiles ==
    { NewJob(DGood, StartTime - 1),
      FailedJob(MAX_ATTEMPTS - 2, DGood),
      FailedJob(MAX_ATTEMPTS - 1, DGood) }

\* an empty queue, ingestion enabled and configured
QueueIdle ==
    /\ now = StartTime
    /\ queueDir = EmptyDir
    /\ deadDir = EmptyDir
    /\ nextId = 1
    /\ warnings = 0
    /\ setupFlag = FALSE
    /\ creds = TRUE
    /\ enableRag = TRUE
    /\ ingested = {}
    /\ summary = NoSummary
    /\ passLog = EmptyDir

InitQueue ==
    /\ now = StartTime
    /\ \E k \in 0..Cardinality(JobIds) :
        /\ queueDir \in [1..k -> InitJobFiles]
        /\ nextId = k + 1
    /\ deadDir = EmptyDir
    /\ warnings = 0
    /\ setupFlag = FALSE
    /\ creds \in BOOLEAN
    /\ enableRag \in BOOLEAN
    /\ ingested = {}
    /\ summary = NoSummary
    /\ passLog = EmptyDir
    /\ StopIdle
    /\ GateIdle
    /\ RestIdle

NextQueue ==
    \/ Enqueue
    \/ Drain
    \/ RetryDead
    \/ Tick
    \/ ConfigureEnv
    \/ ConsumeSetupFlag

SpecQueue == InitQueue /\ [][NextQueue]_vars

(***************************************************************************)
(* The queue after an earlier pass gave a job up: the move to the dead     *)
(* directory failed and the file was rewritten in place with status dead,  *)
(* one nominal backoff ago.                                                *)
(***************************************************************************)
DeadInPlace == [FailedJob(MAX_ATTEMPTS, DGood) EXCEPT !.status = "dead"]

InitDead ==
    /\ now = StartTime
    /\ \E k \in 1..Cardinality(JobIds) :
        /\ queueDir \in [1..k -> {DeadInPlace, FailedJob(MAX_ATTEMPTS - 1, DGood)}]
        /\ nextId = k + 1
    /\ deadDir = EmptyDir
    /\ warnings = 0
    /\ setupFlag = FALSE
    /\ creds = TRUE
    /\ enableRag = TRUE
    /\ ingested = {}
    /\ summary = NoSummary
    /\ passLog = EmptyDir
    /\ StopIdle
    /\ GateIdle
    /\ RestIdle

NextDead ==
    \/ Drain
    \/ RetryDead
    \/ Tick

SpecDead == InitDead /\ [][NextDead]_vars

(***************************************************************************)
(* Repeated Drain passes with ingestion enabled, credentials present and   *)
(* every memory_ingest call succeeding.  The passes read only differences  *)
(* between the clock and the time stamps of the files, so the passing of   *)
(* BACKOFF_CAP seconds is modelled by moving the time stamps back: every   *)
(* last_attempt is then at least BACKOFF_CAP old, and the modification     *)
(* times keep their order.  An attempt_count above MaxCount is kept as     *)
(* MaxCount: from there on the backoff is BACKOFF_CAP whatever the jitter, *)
(* and the count is past MAX_ATTEMPTS.                                     *)
(***************************************************************************)
LiveJobFiles ==
    InitJobFiles \cup {NewJob(DNoAgent, StartTime - 1), DeadInPlace}

\* no memory_ingest call of the pass failed
HealthyPass(log) ==
    \A n \in DOMAIN log :
        log[n].attempted /\ log[n].result \in McpResults
        => log[n].result = Result(TRUE, "", "")

DrainHealthy == Drain /\ HealthyPass(passLog')

LongAgo == StartTime - BACKOFF_CAP

MtimeRank(dir, n) == Cardinality({ m \in DOMAIN dir : dir[m].mtime < dir[n].mtime }) + 1

\* BACKOFF_CAP seconds pass
Advance ==
    /\ queueDir' = [n \in DOMAIN queueDir |->
                       [queueDir[n] EXCEPT
                            !.last_attempt = IF @ = 0 THEN 0 ELSE LongAgo,
                            !.attempt_count = Min(@, MaxCount),
                            !.mtime = MtimeRank(queueDir, n)]]
    /\ summary' = NoSummary
    /\ passLog' = EmptyDir
    /\ UNCHANGED <<now, deadDir, nextId, warnings, setupFlag, creds, enableRag, ingested>>
    /\ UNCHANGED <<stopVars, gateVars, restVars>>

InitLive ==
    /\ now = StartTime
    /\ \E k \in 0..Cardinality(JobIds) :
        /\ queueDir \in [1..k -> LiveJobFiles]
        /\ nextId = k + 1
    /\ deadDir = EmptyDir
    /\ warnings = 0
    /\ setupFlag = FALSE
    /\ creds = TRUE
    /\ enableRag = TRUE
    /\ ingested = {}
    /\ summary = NoSummary
    /\ passLog = EmptyDir
    /\ StopIdle
    /\ GateIdle
    /\ RestIdle

NextLive ==
    \/ DrainHealthy
    \/ Advance
    \/ Enqueue

\* Drain passes are repeated and time advances
SpecLive ==
    InitLive /\ [][NextLive]_vars /\ WF_vars(DrainHealthy) /\ WF_vars(Advance)

(***************************************************************************)
(* Two Drain passes that overlap on the queue directory.                   *)
(***************************************************************************)
\* the queue as earlier runs left it, ingestion enabled; the passes run
\* within one tick of the clock
InitOverlap ==
    /\ InitQueue
    /\ enableRag

NextOverlap ==
    \/ \E p \in PassIds : BeginPass(p)
    \/ \E p \in PassIds : VisitNext(p)
    \/ \E p \in PassIds : FinishAttempt(p)

SpecOverlap == InitOverlap /\ [][NextOverlap]_vars

(***************************************************************************)
(* Intake: one DIGEST of any shape is enqueued and drained.                *)
(***************************************************************************)
DigestUniverse ==
    { MkDigest(agent, task, s, p, f, ds) :
        agent \in {Absent, "", "RC", "UNKNOWN"},
        task \in {Absent, "", "untagged", "t-1"},
        s \in {"", "x"}, p \in {"", "x"}, f \in {"", "fix"},
        ds \in {<<>>, <<"d1">>} }

EnqueueAny ==
    /\ \E digest \in DigestUniverse : enqueue_digest_job(digest)
    /\ UNCHANGED <<stopVars, gateVars, restVars>>

\* the queue after an earlier job was ingested and removed; one id is left
InitIntake ==
    /\ now = StartTime
    /\ queueDir = EmptyDir
    /\ deadDir = EmptyDir
    /\ nextId \in JobIds /\ nextId + 1 \notin JobIds
    /\ warnings = 0
    /\ setupFlag = FALSE
    /\ creds = TRUE
    /\ enableRag = TRUE
    /\ ingested = { [job |-> n, digest |-> DGood] : n \in 1..(nextId - 1) }
    /\ summary = NoSummary
    /\ passLog = EmptyDir
    /\ StopIdle
    /\ GateIdle
    /\ RestIdle

NextIntake ==
    \/ EnqueueAny
    \/ Drain
    \/ Tick

SpecIntake == InitIntake /\ [][NextIntake]_vars

(***************************************************************************)
(* Stop invocations on a fresh project.                                    *)
(***************************************************************************)
InitStop ==
    /\ QueueIdle
    /\ StopIdle
    /\ GateIdle
    /\ RestIdle

NextStop ==
    \/ Stop
    \/ Tick

SpecStop == InitStop /\ [][NextStop]_vars

(***************************************************************************)
(* Stop invocations whose transcripts hold the DIGESTs of two different    *)
(* tasks, both accepted by append_notes and refresh_wsi.                   *)
(***************************************************************************)
CaptureTexts == {NoDigestText, Msg(TRUE, DWithFiles), Msg(TRUE, DOther)}

CaptureTranscripts ==
    {NoTranscript} \cup
    UNION { { Transcript(TRUE, raw, msgs, tail) :
                raw \in BOOLEAN, tail \in 0..Len(msgs) } :
            msgs \in UNION { [1..k -> CaptureTexts] : k \in TranscriptLens } }

CapturePayloads ==
    [valid : {TRUE}, text : {NoDigestText, Msg(TRUE, DWithFiles)},
     transcript : CaptureTranscripts]

StopCapture == StopOn(CapturePayloads)

NextCapture ==
    \/ StopCapture
    \/ Tick

SpecCapture == InitStop /\ [][NextCapture]_vars

(***************************************************************************)
(* The journal under a run of append_notes calls.                          *)
(***************************************************************************)
InitJournal ==
    /\ QueueIdle
    /\ StopIdle
    /\ GateIdle
    /\ RestIdle

NextJournal ==
    \/ AppendNotes
    \/ Tick

SpecJournal == InitJournal /\ [][NextJournal]_vars

(***************************************************************************)
(* The WSI under refresh_wsi calls and invocations of the gate, which      *)
(* prunes it every PRUNE_INTERVAL turns.                                   *)
(***************************************************************************)
WsiInputs == { ToolCall(FALSE, "Bash", NoPath, LsCommand) }

WsiCalls == PreToolUse(WsiInputs)

InitWsi ==
    /\ QueueIdle
    /\ StopIdle
    /\ GateIdle
    /\ RestIdle

NextWsi ==
    \/ RefreshWsi
    \/ WsiCalls
    \/ Tick

SpecWsi == InitWsi /\ [][NextWsi]_vars

(***************************************************************************)
(* The status document under runs of the project-status update, while     *)
(* jobs are queued and the clock advances.                                 *)
(***************************************************************************)
InitStatus ==
    /\ QueueIdle
    /\ CoordinatorIdle
    /\ GateIdle
    /\ claudeMd \in StatusDocs
    /\ statusLog = NoStatus
    /\ compactSummary = NoCompactSummary
    /\ compactLog = NoCompact
    /\ RestIdle

NextStatus ==
    \/ UpdateClaudeMd
    \/ Enqueue
    \/ Tick

SpecStatus == InitStatus /\ [][NextStatus]_vars

(***************************************************************************)
(* Compaction summaries between Stop invocations.                          *)
(***************************************************************************)
NextCompact ==
    \/ Stop
    \/ PreCompact

SpecCompact == InitStop /\ [][NextCompact]_vars

(***************************************************************************)
(* The repository under create_checkpoint calls and edits.                 *)
(***************************************************************************)
\* a repository with one commit and a clean tree, or one without a commit
InitCheckpoint ==
    /\ QueueIdle
    /\ StopIdle
    /\ GateIdle
    /\ PassesIdle
    /\ CounterIdle
    /\ \/ RepoIdle
       \/ /\ workTree = EmptyTree
          /\ gitIndex = EmptyTree
          /\ gitHead = [exists |-> FALSE, tree |-> EmptyTree]
          /\ stashList = <<>>
          /\ checkpointDir = <<>>
          /\ ckLog = NoCheckpoint
          /\ creations = <<>>

NextCheckpoint ==
    \/ CreateCheckpoint
    \/ EditTree
    \/ StagePath

SpecCheckpoint == InitCheckpoint /\ [][NextCheckpoint]_vars

(***************************************************************************)
(* The checkpoint directory under creations, edits and the clock.  A       *)
(* behaviour starts with an empty directory or after earlier creations,    *)
(* one per second, of a tree with an edited a.txt.                         *)
(***************************************************************************)
EditedTree == [CommittedTree EXCEPT !["a.txt"] = 2]

PriorRecords(n) ==
    [i \in 1..n |-> [id |-> StartTime - n + i - 1, stash_ref |-> [tree |-> EditedTree]]]

InitRecords ==
    /\ QueueIdle
    /\ StopIdle
    /\ GateIdle
    /\ PassesIdle
    /\ CounterIdle
    /\ workTree = EditedTree
    /\ gitIndex = CommittedTree
    /\ gitHead = [exists |-> TRUE, tree |-> CommittedTree]
    /\ \E n \in RecordStarts :
          /\ checkpointDir = PriorRecords(n)
          /\ creations = PriorRecords(n)
          /\ stashList = [i \in 1..n |-> PriorRecords(n)[i].stash_ref]
    /\ ckLog = NoCheckpoint

NextRecords ==
    \/ CreateRecord
    \/ EditTree
    \/ Tick

SpecRecords == InitRecords /\ [][NextRecords]_vars

(***************************************************************************)
(* The gate: reads and edits of source files (SpecReads), schema edits and *)
(* shell commands against the notes file (SpecSchema), edits of code and   *)
(* other files (SpecRouting), markdown writes against the approval store   *)
(* (SpecMarkdown).                                                         *)
(***************************************************************************)
InitGateAt(starts) ==
    /\ QueueIdle
    /\ StopIdle
    /\ turn_count \in starts
    /\ file_hashes = EmptyDir
    /\ workFiles = [path \in {XTs, GonePy} |-> IF path = XTs THEN 1 ELSE 0]
    /\ projectNotes = <<>>
    /\ md_state = NoMdState
    /\ approvalTimes = <<>>
    /\ gateLog = NoGate
    /\ readRun = NoRun
    /\ RestIdle

InitGate == InitGateAt(GateStarts)

NextReads ==
    \/ ReadCalls
    \/ ModifyFile

SpecReads == InitGate /\ [][NextReads]_vars

NextSchema ==
    \/ SchemaCalls
    \/ WriteProjectNotes

SpecSchema == InitGate /\ [][NextSchema]_vars

NextRouting ==
    \/ RoutingCalls
    \/ WriteProjectNotes

SpecRouting == InitGate /\ [][NextRouting]_vars

\* shell commands and edits around turn 50
InitTriggers == InitGateAt(TriggerStarts)

NextTriggers ==
    \/ TriggerCalls
    \/ WriteProjectNotes

SpecTriggers == InitTriggers /\ [][NextTriggers]_vars

NextMarkdown ==
    \/ MarkdownCalls
    \/ MdRequest
    \/ Wait

SpecMarkdown == InitGate /\ [][NextMarkdown]_vars

(***************************************************************************)
(* Overlapping invocations on the counter file, from a counter of one and  *)
(* of two digits.                                                          *)
(***************************************************************************)
CounterStarts == {0, 8, 98}

InitCounter ==
    /\ QueueIdle
    /\ StopIdle
    /\ \E n \in CounterStarts :
          /\ turn_count = n
          /\ counterRuns = CounterAt(n)
    /\ file_hashes = EmptyDir
    /\ workFiles = [path \in {XTs, GonePy} |-> IF path = XTs THEN 1 ELSE 0]
    /\ projectNotes = <<>>
    /\ md_state = NoMdState
    /\ approvalTimes = <<>>
    /\ gateLog = NoGate
    /\ readRun = NoRun
    /\ RepoIdle
    /\ PassesIdle

NextCounter ==
    \/ LoadTurnCount
    \/ OpenTurnCount
    \/ SaveTurnCount

SpecCounter == InitCounter /\ [][NextCounter]_vars

(***************************************************************************)
(* The hooks that record DIGESTs, followed by the gate.  stop_digest.py    *)
(* writes <cwd>/.claude/logs/NOTES.md (journal), task_digest_capture.py    *)
(* writes <cwd>/NOTES.md (projectNotes), the file the gate reads.          *)
(***************************************************************************)
DDme == [DWithFiles EXCEPT !.agent = "DME"]
DIds == [DWithFiles EXCEPT !.agent = "IDS"]
UnlockDigests == {DDme, DIds}

\* Stop payloads whose own text holds the DIGEST
UnlockPayloads ==
    { [valid |-> TRUE, text |-> Msg(TRUE, d), transcript |-> NoTranscript] :
        d \in UnlockDigests }

StopUnlock == StopOn(UnlockPayloads)

\* task_digest_capture.py append_to_notes: the block starts with the heading
\* "## [ts] <agent> - <task_id>" and lists the fields as markdown
CaptureBlock(d) == NotesEntry(d.agent, FALSE, 0, 240)

CaptureItem(path) == [path |-> path, reason |-> "touched", anchors |-> <<>>]

RECURSIVE UpdateLoop(_, _)
UpdateLoop(items, files) ==
    IF files = <<>> THEN items
    ELSE LET path == Head(files).path
         IN  IF path = "" THEN UpdateLoop(items, Tail(files))
             ELSE UpdateLoop(Append(SelectSeq(items, LAMBDA item : item.path # path),
                                    CaptureItem(path)),
                             Tail(files))

\* task_digest_capture.py update_wsi
update_wsi(items, d) ==
    LET updated == UpdateLoop(items, d.files)
    IN  IF Len(updated) > WSI_CAP
        THEN SubSeq(updated, Len(updated) - WSI_CAP + 1, Len(updated))
        ELSE updated

\* task_digest_capture.py main() on the output of a Task tool that holds a DIGEST
TaskDigestCapture ==
    /\ Len(projectNotes) < MaxNotes
    /\ \E d \in UnlockDigests :
          /\ projectNotes' = Append(projectNotes, CaptureBlock(d))
          /\ wsi' = update_wsi(wsi, d)
    /\ gateLog' = NoGate
    /\ readRun' = NoRun
    /\ UNCHANGED <<turn_count, file_hashes, workFiles, md_state, approvalTimes>>
    /\ UNCHANGED <<journal, archive, placeholders, stopLog, noteCount, wsiLog,
                   claudeMd, statusLog, compactSummary, compactLog>>
    /\ UNCHANGED <<queueVars, restVars>>

NextUnlock ==
    \/ StopUnlock
    \/ TaskDigestCapture
    \/ SchemaCalls

SpecUnlock == InitGate /\ [][NextUnlock]_vars

(***************************************************************************)
(* Properties of the queue.                                                *)
(***************************************************************************)
\* the job ids written to the queue directory so far
Minted == 1..(nextId - 1)

\* one attempt on job n was accepted by the vector service
WasIngested(n) == \E doc \in ingested : doc.job = n

\* the kinds of result an attempt can end with
IsSuccess(r) == r.truthy /\ r.error = "" /\ r.skipped = ""
IsCredsSkip(r) == r.skipped = SkippedNotConfigured
IsRetryableError(r) == r.error = ErrTimeout
IsFatal(r) == ~IsSuccess(r) /\ ~IsCredsSkip(r) /\ ~IsRetryableError(r)

\* the result of the attempt the pass that ends in the next state made on job n
AttemptedWith(n, Kind(_)) ==
    n \in DOMAIN passLog' /\ passLog'[n].attempted /\ Kind(passLog'[n].result)

C2_DeadExactlyAtMaxAttempts ==
    [][\A n \in DOMAIN queueDir :
         LET before == queueDir[n].attempt_count
             fatal  == AttemptedWith(n, IsFatal)
         IN  /\ (n \in DOMAIN deadDir' /\ n \notin DOMAIN deadDir)
                    => fatal /\ before + 1 >= MAX_ATTEMPTS
             /\ (fatal /\ before + 1 >= MAX_ATTEMPTS)
                    => \/ n \in DOMAIN deadDir' /\ n \notin DOMAIN queueDir'
                       \/ /\ n \in DOMAIN queueDir' /\ n \notin DOMAIN deadDir'
                          /\ queueDir'[n].status = "dead"
             /\ (fatal /\ before + 1 < MAX_ATTEMPTS)
                    => /\ n \in DOMAIN queueDir' /\ n \notin DOMAIN deadDir'
                       /\ queueDir'[n].status = "queued"
                       /\ queueDir'[n].attempt_count = before + 1]_vars

\* the pass that just ran moved a job to the dead directory on a fatal attempt
C2_Witness ==
    \E n \in DOMAIN deadDir :
        n \in DOMAIN passLog /\ passLog[n].attempted /\ IsFatal(passLog[n].result)

\* C3: an attempt that ends with a retryable error leaves the job in the
\* queue directory with status queued, the error recorded in last_error and
\* the attempt_count it had before the attempt.
C3_RetryableKeepsAttemptCount ==
    [][\A n \in DOMAIN queueDir :
         AttemptedWith(n, IsRetryableError)
            => /\ n \in DOMAIN queueDir' /\ n \notin DOMAIN deadDir'
               /\ queueDir'[n].status = "queued"
               /\ queueDir'[n].last_error = passLog'[n].result.error
               /\ queueDir'[n].attempt_count = queueDir[n].attempt_count]_vars

\* a job one attempt short of MAX_ATTEMPTS has just met a retryable error
C3_Witness ==
    \E n \in DOMAIN queueDir :
        /\ n \in DOMAIN passLog /\ passLog[n].attempted
        /\ IsRetryableError(passLog[n].result)
        /\ queueDir[n].attempt_count = MAX_ATTEMPTS - 1

\* C4: an attempt that the vector client skips for missing credentials
\* leaves the job file in the queue directory with status queued and the
\* attempt_count it had before the pass.
C4_MissingCredsKeepsJob ==
    [][\A n \in DOMAIN queueDir :
         AttemptedWith(n, IsCredsSkip)
            => /\ n \in DOMAIN queueDir' /\ n \notin DOMAIN deadDir'
               /\ ~WasIngested(n)'
               /\ queueDir'[n].status = "queued"
               /\ queueDir'[n].attempt_count = queueDir[n].attempt_count]_vars

\* a job one attempt short of MAX_ATTEMPTS has just been skipped for
\* missing credentials
C4_Witness ==
    \E n \in DOMAIN queueDir :
        /\ n \in DOMAIN passLog /\ passLog[n].attempted
        /\ IsCredsSkip(passLog[n].result)
        /\ queueDir[n].attempt_count = MAX_ATTEMPTS - 1

\* C5: a Drain pass that skips jobs for missing credentials appends at most
\* one entry to WARNINGS.md.
C5_AtMostOneWarningPerDrain ==
    [][(\E n \in DOMAIN queueDir : AttemptedWith(n, IsCredsSkip))
          => warnings' <= warnings + 1]_vars

(***************************************************************************)
(* Properties of the Stop coordinator.                                     *)
(***************************************************************************)
\* C6: a Stop invocation that finds a DIGEST creates exactly one job file
\* and exits 0; an invocation that finds none creates no job file.
C6_OneJobPerDigest ==
    stopLog.ran =>
        IF stopLog.found
        THEN stopLog.enqueued = 1 /\ stopLog.exit = 0
        ELSE stopLog.enqueued = 0

(***************************************************************************)
(* Properties of the intake of DIGESTs.                                    *)
(***************************************************************************)
\* the defects of a DIGEST: no agent, a task_id that is missing, empty or
\* "untagged", none of summary / problem+solution / decisions, or a canonical
\* text shorter than MIN_DIGEST_LENGTH
Defective(d) ==
    \/ d.agent = Absent
    \/ d.task_id \in {Absent, "", "untagged"}
    \/ ~(d.summary # "" \/ (d.problem # "" /\ d.solution # "") \/ d.decisions # <<>>)
    \/ DigestTextLen(d) < MIN_DIGEST_LENGTH

C8_DuplicateReadExits ==
    LET expected == <<0, 1, 1, 2>>
        n == Len(readRun.codes)
    IN  /\ \A i \in 1..Min(n, Len(expected)) : readRun.codes[i] = expected[i]
        /\ n = Len(expected)
              => gateLog.headline = DuplicateBlocked /\ gateLog.named = readRun.path

\* 'agent": "DME"' lies in the last 500 characters of <cwd>/NOTES.md
DmeInLast500 ==
    \E i \in 1..Len(projectNotes) :
        /\ projectNotes[i].json /\ projectNotes[i].agent = "DME"
        /\ SizeFrom(projectNotes, i) - projectNotes[i].marker_at <= 500

\* the invocation that ran last was an Edit, Write or MultiEdit of a path
\* that contains schema.prisma or /migrations/
SchemaEditRan ==
    /\ gateLog.ran
    /\ gateLog.data.tool \in {"Edit", "Write", "MultiEdit"}
    /\ \/ Contains(gateLog.data.file_path, <<"schema", ".prisma">>)
       \/ Contains(gateLog.data.file_path, <<"/", "migrations", "/">>)

\* C9: an Edit, Write or MultiEdit of a path that contains schema.prisma or
\* /migrations/ exits 2 with SCHEMA CHANGE BLOCKED and the path, at every
\* turn count and whatever the typecheck reports, unless the last 500
\* characters of the notes file contain agent": "DME"; with the marker there
\* the schema block does not fire.
C9_SchemaChangeBlocked ==
    SchemaEditRan =>
        IF DmeInLast500
        THEN gateLog.headline # SchemaBlocked
        ELSE /\ gateLog.exit = 2
             /\ gateLog.headline = SchemaBlocked
             /\ gateLog.named = gateLog.data.file_path

\* a Write of schema.prisma was blocked on a turn on which the periodic
\* typecheck runs, with a DME entry in the notes file but out of the tail
C9_Witness ==
    /\ SchemaEditRan
    /\ gateLog.data.tool = "Write"
    /\ gateLog.data.file_path = SchemaPath
    /\ gateLog.turn % (2 * TYPECHECK_INTERVAL) = 0
    /\ \E i \in 1..Len(projectNotes) : projectNotes[i].json /\ projectNotes[i].agent = "DME"
    /\ gateLog.exit = 2

\* C10: a Write of a .md path outside the allow-list exits 0 when the store
\* holds a matching approval not older than 5 minutes, and exits 2 with the
\* markdown-spam message when it holds none or the approval is older.
C10_MarkdownWriteByApproval ==
    [][( /\ gateLog'.ran
         /\ gateLog'.data.tool = "Write"
         /\ EndsWith(Lower(gateLog'.data.file_path), <<".md">>)
         /\ ~ContainsAny(Lower(PathName(gateLog'.data.file_path)), allowed_auto_create) )
        => IF CheckMdApproval(md_state, gateLog'.data.file_path, now).approved
           THEN gateLog'.exit = 0
           ELSE gateLog'.exit = 2 /\ gateLog'.headline = MdSpamBlocked]_vars

\* the invocation that ran last was an Edit of a file with a code extension
\* under a project code directory and under no infrastructure directory
DirectCodeEditRan ==
    /\ gateLog.ran
    /\ gateLog.data.tool = "Edit"
    /\ \E ext \in { <<".ts">>, <<".tsx">>, <<".js">>, <<".jsx">>, <<".py">>, <<".java">>,
                     <<".cpp">>, <<".c">>, <<".rs">>, <<".go">>, <<".rb">> } :
            EndsWith(gateLog.data.file_path, ext)
    /\ \E dir \in {"lib", "app", "components", "src", "packages"} :
            Contains(gateLog.data.file_path, <<"/", dir, "/">>)
    /\ ~\E dir \in {"claude-hooks", ".claude", "scripts"} :
            Contains(gateLog.data.file_path, <<"/", dir, "/">>)

\* C11 as stated: a direct Edit of project code exits 1 with the ROUTING
\* POLICY message; any other Edit produces no routing warning.
C11_RoutingWarning ==
    (gateLog.ran /\ gateLog.data.tool = "Edit") =>
        IF DirectCodeEditRan
        THEN gateLog.exit = 1 /\ gateLog.headline = RoutingReminder
        ELSE gateLog.headline # RoutingReminder

\* C11, amended: a direct Edit of project code exits 1 with the ROUTING
\* POLICY message naming the file unless a gate declared earlier ends the
\* invocation: the schema-change block (exit 2) or a failing periodic
\* typecheck (exit 1 with the typecheck message); any other Edit produces no
\* routing warning.
C11_RoutingWarningAfterEarlierGates ==
    (gateLog.ran /\ gateLog.data.tool = "Edit") =>
        IF DirectCodeEditRan
        THEN \/ gateLog.exit = 2 /\ gateLog.headline = SchemaBlocked
                  /\ SchemaEditRan /\ ~DmeInLast500
             \/ gateLog.exit = 1 /\ gateLog.headline = TypecheckErrors
                  /\ gateLog.turn % TYPECHECK_INTERVAL = 0
             \/ /\ gateLog.exit = 1 /\ gateLog.headline = RoutingReminder
                /\ gateLog.named = gateLog.data.file_path
        ELSE gateLog.headline # RoutingReminder

\* an Edit of project code got the routing warning on a turn on which the
\* periodic typecheck runs
C11_Witness ==
    /\ DirectCodeEditRan
    /\ gateLog.data.file_path = XTs
    /\ gateLog.turn % TYPECHECK_INTERVAL = 0
    /\ gateLog.exit = 1 /\ gateLog.headline = RoutingReminder

\* 'agent": "IDS"' lies in the last 500 characters of <cwd>/NOTES.md
IdsInLast500 ==
    \E i \in 1..Len(projectNotes) :
        /\ projectNotes[i].json /\ projectNotes[i].agent = "IDS"
        /\ SizeFrom(projectNotes, i) - projectNotes[i].marker_at <= 500

\* the Read of the next state is a third or later duplicate inside the window
ThirdDuplicateRead ==
    LET path == gateLog'.data.file_path
    IN  /\ gateLog'.data.tool = "Read"
        /\ path \in DOMAIN workFiles /\ workFiles[path] # 0
        /\ path \in DOMAIN file_hashes
        /\ file_hashes[path].hash = workFiles[path]
        /\ turn_count + 1 - file_hashes[path].turn <= CACHE_TURNS
        /\ file_hashes[path].duplicate_attempts + 1 >= 3

\* the command of the next state removes a dependency with no IDS marker
UnreviewedRemoval ==
    /\ gateLog'.data.tool = "Bash"
    /\ \E tok \in {"npm uninstall", "pip uninstall", "pnpm remove"} :
           Contains(gateLog'.data.command, <<tok>>)
    /\ ~IdsInLast500

\* the Write of the next state creates a .md file outside the allow-list
\* with no valid approval in the store
UnapprovedMdWrite ==
    /\ gateLog'.data.tool = "Write"
    /\ EndsWith(Lower(gateLog'.data.file_path), <<".md">>)
    /\ ~ContainsAny(Lower(PathName(gateLog'.data.file_path)), allowed_auto_create)
    /\ ~CheckMdApproval(md_state, gateLog'.data.file_path, now).approved

\* C12: an invocation to which a hard-block rule applies exits 2, at every
\* turn count and whatever the periodic typecheck reports.
C12_HardBlocksWin ==
    [][(gateLog'.ran /\ ~gateLog'.data.blank
          /\ (ThirdDuplicateRead \/ UnreviewedRemoval \/ UnapprovedMdWrite))
        => gateLog'.exit = 2]_vars

(***************************************************************************)
(* Properties of the journal.                                              *)
(***************************************************************************)
\* C13: after any number of appends, each followed by its rotation pass,
\* the journal holds at most 20 DIGEST entries.
C13_JournalHoldsAtMost20 == Len(Flatten(journal)) <= 20

\* C14: every entry ever appended is in the journal or in a file of the
\* archive directory.
C14_RotationLosesNoEntry ==
    Len(Flatten(journal)) + ArchivedCount(archive) = noteCount

(***************************************************************************)
(* Properties of the WSI.                                                  *)
(***************************************************************************)
\* C15: after any sequence of refreshes, and prunes by the gate, the
\* persisted WSI holds at most WSI_CAP items.
C15_WsiWithinCap == Len(wsi) <= WSI_CAP

\* a refresh whose list outgrew the cap left exactly WSI_CAP items
C15_Witness ==
    /\ wsiLog.ran
    /\ wsiLog.uncapped > WSI_CAP
    /\ Len(wsi) = WSI_CAP

\* C16: after refreshes from an empty WSI, whatever the files lists of the
\* DIGESTs, no two WSI items have the same path.
C16_WsiPathsUnique ==
    \A i, j \in 1..Len(wsi) : i # j => wsi[i].path # wsi[j].path

DigestPaths(files) == { files[i].path : i \in 1..Len(files) }

\* C17: after a refresh for a DIGEST that lists at most WSI_CAP distinct
\* paths, every path of the DIGEST is in the persisted WSI and the record at
\* the tail of the WSI is one the DIGEST touched.
C17_DigestPathsKept ==
    (wsiLog.ran /\ Cardinality(DigestPaths(wsiLog.files)) <= WSI_CAP)
    => /\ DigestPaths(wsiLog.files) \subseteq { wsi[i].path : i \in 1..Len(wsi) }
       /\ wsi # <<>>
       /\ wsi[Len(wsi)].path \in DigestPaths(wsiLog.files)

(***************************************************************************)
(* Properties of the status document.                                      *)
(***************************************************************************)
\* C18: a run of the project-status update that follows another one with the
\* same inputs (the same status, nothing else having written the document)
\* writes nothing: the document is what it was before the run.
C18_SecondRunWritesNothing ==
    (statusLog.twice /\ statusLog.status = statusLog.prev)
    => /\ ~statusLog.updated
       /\ claudeMd = statusLog.before

(***************************************************************************)
(* Properties of the compaction summary.                                   *)
(***************************************************************************)
\* the DIGEST the scraper returned has the agent, task_id, files and
\* decisions of the DIGEST the entry was written from
Recovers(found, d) ==
    /\ found.agent = d.agent
    /\ found.task_id = d.task_id
    /\ found.files = d.files
    /\ found.decisions = d.decisions

\* C19: for every entry the Stop coordinator appended to the journal, the
\* journal scraper of PreCompact returns a DIGEST with the same agent,
\* task_id, files list and decisions.
C19_ScraperRecoversDigest ==
    compactLog.ran =>
        \A i \in 1..Len(compactLog.entries) :
            \E j \in 1..Len(compactLog.scraped) :
                Recovers(compactLog.scraped[j], compactLog.entries[i].digest)

NoDuplicate(seq) == \A i, j \in 1..Len(seq) : i # j => seq[i] # seq[j]

\* seq without the elements that occur earlier in it
FirstSeen(seq) ==
    LET keep == {i \in 1..Len(seq) : \A j \in 1..(i - 1) : seq[j] # seq[i]}
        nth(k) == CHOOSE i \in keep : Cardinality({j \in keep : j < i}) = k - 1
    IN  [k \in 1..Cardinality(keep) |-> seq[nth(k)]]

\* C20: every list of the compaction summary is free of duplicates and in
\* first-seen order of the input DIGESTs.
C20_SummaryListsDeduped ==
    compactLog.ran =>
        LET ds == compactLog.digests
            files == AllFiles(ds)
        IN  /\ \A key \in {"decisions", "next_steps", "contracts_touched",
                            "owned_artifacts", "files_touched", "open_questions",
                            "risks", "agents_seen"} :
                  NoDuplicate(compactSummary[key])
            /\ compactSummary.decisions = FirstSeen(AllDecisions(ds))
            /\ compactSummary.owned_artifacts
                 = FirstSeen([i \in 1..Len(files) |-> files[i].path])
            /\ compactSummary.files_touched = FirstSeen(files)
            /\ compactSummary.agents_seen
                 = FirstSeen([i \in 1..Len(ds) |-> AgentOf(ds[i])])

Requeued(n) ==
    { m \in (DOMAIN queueDir' \ DOMAIN queueDir) \cap {n, RetryName(n)} :
        /\ queueDir'[m].attempt_count = 0
        /\ queueDir'[m].last_error = ""
        /\ queueDir'[m].last_attempt = 0
        /\ queueDir'[m].status = "queued"
        /\ queueDir'[m].digest = deadDir[n].digest }

RetryAllKeepsEveryJob ==
    /\ deadDir' = EmptyDir
    /\ \A n \in DOMAIN queueDir : n \in DOMAIN queueDir' /\ queueDir'[n] = queueDir[n]
    /\ \A n \in DOMAIN deadDir : Cardinality(Requeued(n)) = 1
    /\ Cardinality(DOMAIN queueDir')
         = Cardinality(DOMAIN queueDir) + Cardinality(DOMAIN deadDir)

RetryLimitedMovesAtMost(k) ==
    /\ Cardinality(DOMAIN deadDir \ DOMAIN deadDir') <= k
    /\ DOMAIN deadDir' \subseteq DOMAIN deadDir
    /\ \A n \in DOMAIN deadDir' : deadDir'[n] = deadDir[n]
    /\ \A n \in DOMAIN queueDir : n \in DOMAIN queueDir' /\ queueDir'[n] = queueDir[n]
    /\ \A n \in DOMAIN deadDir \ DOMAIN deadDir' : Cardinality(Requeued(n)) = 1

C23_NoDigestExitsZero ==
    (stopLog.ran /\ ~stopLog.found)
    => /\ stopLog.exit = 0
       /\ placeholders
       /\ stopLog.appended = 0
       /\ stopLog.enqueued = 0

(***************************************************************************)
(* Properties of the DIGEST a Stop invocation takes from the transcript.   *)
(***************************************************************************)
\* the DIGEST of the journal entry written last
LastEntryDigest ==
    LET entries == Flatten(journal)
    IN  entries[Len(entries)].digest

\* C24: when Stop takes its DIGEST from the transcript (the payload's own text
\* holds none) and records it, the DIGEST recorded is that of the most recent
\* assistant message that holds one, on the tail-window path as on the
\* full-parse path.
C24_CapturesMostRecentDigest ==
    (stopLog.ran /\ stopLog.valid /\ ~stopLog.inline /\ stopLog.appended > 0)
    => LastEntryDigest = stopLog.latest.digest

(***************************************************************************)
(* Properties of the backoff between Drain attempts.                       *)
(***************************************************************************)
\* C25: a job whose last attempt failed with a retryable error at time t is
\* not attempted by a later Drain pass before BACKOFF_BASE seconds have
\* passed since t, whatever its attempt_count, 0 included.
C25_BackoffAfterRetryable ==
    [][ \A n \in DOMAIN queueDir :
          ( /\ queueDir[n].last_attempt # 0
            /\ queueDir[n].last_error = ErrTimeout
            /\ n \in DOMAIN passLog'
            /\ passLog'[n].attempted )
          => now - queueDir[n].last_attempt >= BACKOFF_BASE ]_vars

(***************************************************************************)
(* Properties of the files Drain moves to the dead directory.              *)
(***************************************************************************)
\* the last_error the failed branch computes for the result of an attempt
FinalError(result) ==
    IF result.truthy /\ result.error # "" THEN result.error ELSE "unknown error"

\* C26: a job file that a Drain pass places in the dead directory has
\* status dead, an attempt_count of at least MAX_ATTEMPTS and the last_error
\* of the attempt that failed last.
C26_DeadFileRecordsFinalState ==
    [][ \A n \in DOMAIN deadDir' \ DOMAIN deadDir :
          (n \in DOMAIN passLog' /\ passLog'[n].attempted)
          => /\ deadDir'[n].status = "dead"
             /\ deadDir'[n].attempt_count >= MAX_ATTEMPTS
             /\ deadDir'[n].last_error = FinalError(passLog'[n].result) ]_vars

(***************************************************************************)
(* Properties of overlapping Drain passes.                                 *)
(***************************************************************************)
\* C27: while two Drain passes overlap, a job that a pass removed after a
\* successful ingestion is in neither the queue directory nor the dead
\* directory, and no job is in both directories.
C27_OverlapKeepsQueueSound ==
    /\ \A x \in ingested : x.job \notin (DOMAIN queueDir \cup DOMAIN deadDir)
    /\ DOMAIN queueDir \cap DOMAIN deadDir = {}

(***************************************************************************)
(* Properties of a Read after the file has changed.                        *)
(***************************************************************************)
\* this step is a PreToolUse invocation for a Read of an existing file
ReadsFile(path) ==
    /\ gateLog'.ran
    /\ ~gateLog'.data.blank
    /\ gateLog'.data.tool = "Read"
    /\ gateLog'.data.file_path = path
    /\ workFiles[path] # 0

\* the cache holds a hash for the path, whatever its age
Cached(path) == path \in DOMAIN file_hashes

\* the entry a Read writes for a file it has not seen with this content
FreshEntry(path) ==
    [hash |-> workFiles[path], turn |-> turn_count', duplicate_attempts |-> 0]

\* C28: a Read of a file whose content hash differs from the cached one exits
\* 0 and leaves the entry of the file with the new hash, the current turn and
\* duplicate_attempts 0, whatever the count was before (the blocked state
\* included); the next Read of the unchanged file counts as attempt 1.
C28_ChangedReadResets ==
    [][ \A path \in DOMAIN workFiles :
          /\ (ReadsFile(path) /\ Cached(path)
                 /\ file_hashes[path].hash # workFiles[path])
              => /\ gateLog'.exit = 0
                 /\ path \in DOMAIN file_hashes'
                 /\ file_hashes'[path] = FreshEntry(path)
          /\ (ReadsFile(path) /\ Cached(path)
                 /\ file_hashes[path] = [FreshEntry(path) EXCEPT !.turn = turn_count])
              => /\ path \in DOMAIN file_hashes'
                 /\ file_hashes'[path].duplicate_attempts = 1 ]_vars

(***************************************************************************)
(* Properties of the approval store under Writes.                          *)
(***************************************************************************)
\* the store holds the *PERMISSIVE* sentinel
HoldsPermissive(state) ==
    \E i \in 1..Len(state.approved_files) : state.approved_files[i] = Permissive

\* the invocation recorded in log was a Write that the markdown gate allowed
\* on an approval
ApprovedWrite(log) ==
    /\ log.ran
    /\ log.data.tool = "Write"
    /\ log.headline = MdApproved

\* C29: a Write allowed on a named approval entry takes that entry out of the
\* store, and the Write of the same path that follows it with no prompt in
\* between exits 2; a Write allowed on the *PERMISSIVE* sentinel leaves the
\* store as it was.
C29_ApprovalIsSingleUse ==
    [][ /\ (ApprovedWrite(gateLog') /\ ~HoldsPermissive(md_state))
           => Len(md_state'.approved_files) = Len(md_state.approved_files) - 1
        /\ (ApprovedWrite(gateLog) /\ ~HoldsPermissive(md_state)
               /\ gateLog'.ran /\ gateLog'.data = gateLog.data)
           => gateLog'.exit = 2
        /\ (ApprovedWrite(gateLog') /\ HoldsPermissive(md_state))
           => md_state' = md_state ]_vars

(***************************************************************************)
(* Properties of the age of an approval.                                   *)
(***************************************************************************)
\* C30: the entry a markdown Write is allowed on was added to the store at
\* most 5 minutes before the Write, whatever prompts added other entries
\* since.
C30_ApprovalExpires ==
    [][ ApprovedWrite(gateLog')
        => \E i \in ApprovingEntries(md_state, gateLog'.data.file_path, now) :
              now <= approvalTimes[i] + APPROVAL_SECS ]_vars

\* C31: every invocation of the PreToolUse gate, whatever its payload (an
\* empty or non-JSON payload included) and whatever it exits with, adds
\* exactly one to the persisted turn counter.
C31_EveryInvocationCounts ==
    [][ gateLog'.ran => turn_count' = turn_count + 1 ]_vars

\* the shell commands the checkpoint trigger is specified for
DestructiveCommand(data) ==
    /\ data.tool = "Bash"
    /\ ContainsAny(Lower(data.command),
          { <<"rm -rf">>, <<"drop table">>, <<"drop database">>, <<"delete from">>,
            <<"trun", "cat", "e">>, <<"prisma migrate">>, <<"sudo">>, <<"chmod 777">> })

\* C32: an invocation whose tool is a shell command with a destructive
\* substring, and an invocation whose turn count is a multiple of 50,
\* triggers a checkpoint creation.
C32_DestructiveTriggersCheckpoint ==
    [][ /\ gateLog'.ran
        /\ ~gateLog'.data.blank
        /\ \/ DestructiveCommand(gateLog'.data)
           \/ gateLog'.turn % CHECKPOINT_INTERVAL = 0
        => gateLog'.checkpoint ]_vars

\* the records of the last n successful creations, oldest first
LastCreations(log, n) ==
    IF Len(log) > n THEN SubSeq(log, Len(log) - n + 1, Len(log)) ELSE log

\* C33: after a create_checkpoint call the directory holds at most
\* MAX_CHECKPOINTS records, they are the records of the most recent
\* successful creations, and a call on a clean tree or outside a repository
\* has written none.
C33_KeepsMostRecentRecords ==
    [][ ckLog'.ran
        => /\ Len(checkpointDir') <= MAX_CHECKPOINTS
           /\ checkpointDir' = LastCreations(creations', MAX_CHECKPOINTS)
           /\ ckLog'.outcome \in {"skipped", "no_repo"} => checkpointDir' = checkpointDir
      ]_vars

\* C40: while at most MAX_CHECKPOINTS successful creations were made, the
\* directory holds one record per creation, and restoring by the id of a
\* creation applies the stash object of that creation.
C40_OneRecordPerCreation ==
    Len(creations) <= MAX_CHECKPOINTS
    => /\ Len(checkpointDir) = Len(creations)
       /\ \A i \in 1..Len(creations) :
             LET r == restore_checkpoint(checkpointDir, creations[i].id)
             IN  r.success /\ r.applied = creations[i].stash_ref

\* git diff --cached --name-only lists the path
Staged(index, head, path) == index[path] # head.tree[path]

\* C34: for every file, whether it is staged after a successful
\* create_checkpoint equals whether it was staged before the call.
C34_StagingRestored ==
    [][ ckLog'.ran /\ ckLog'.outcome = "created"
        => \A path \in RepoPaths :
              Staged(gitIndex', gitHead', path) = Staged(gitIndex, gitHead, path) ]_vars

\* the journal entry recorded last, in each journal file that has entries,
\* is a DIGEST of the agent
LatestRecorded(agent) ==
    /\ Flatten(journal) # <<>> \/ projectNotes # <<>>
    /\ Flatten(journal) # <<>> => LastEntryDigest.agent = agent
    /\ projectNotes # <<>> => projectNotes[Len(projectNotes)].agent = agent

\* C35: after Stop or the Task capture hook recorded a DME DIGEST as the
\* latest journal entry, an edit of a schema file is not blocked by the
\* schema-change gate; after an IDS DIGEST a dependency-removal command is
\* not blocked by the dependency gate.
C35_RecordedDigestUnlocks ==
    [][ gateLog'.ran
        => /\ LatestRecorded("DME") => gateLog'.headline # SchemaBlocked
           /\ LatestRecorded("IDS") => gateLog'.headline # DependencyBlocked ]_vars

\* C36: a job that is dead, moved to the dead directory or rewritten in place
\* with status = dead, is not attempted by a Drain pass.
C36_DeadIsTerminal ==
    [][ \A n \in DOMAIN passLog' :
          passLog'[n].attempted
          => /\ n \notin DOMAIN deadDir
             /\ n \in DOMAIN queueDir => queueDir[n].status # "dead" ]_vars

\* the file of job n is gone from the queue directory and was not moved to
\* the dead directory
Deleted(n) == n \notin DOMAIN queueDir /\ n \notin DOMAIN deadDir

ReachesIngest(d) == ingest_digest_to_vector(d, TRUE) = McpResults

C38_OneEntryPerStop ==
    [][ stopLog'.ran
        => /\ stopLog'.appended <= 1
           /\ stopLog'.enqueued > 0 => stopLog'.appended >= 1 ]_vars

\* C39: under overlapping invocations the value a completed write leaves in
\* the counter file never decreases and never exceeds the initial value plus
\* the number of invocations started.
C39_CounterOnlyUndercounts ==
    [][ /\ counterRuns'.stored >= counterRuns.stored
        /\ counterRuns'.stored <= counterRuns'.initial + counterRuns'.started ]_vars

====
